---- MODULE Spec2Model ----
(***************************************************************************)
(* A model of the graph database service (services/database): identifier   *)
(* validation, the connection holder, the node / relationship / query      *)
(* handlers and the statements they send to the Neo4j backend; and of the  *)
(* file share service (services/fileshare) that stores persons, files and  *)
(* their provenance through it.                                            *)
(*                                                                         *)
(* Strings are sequences of one-character strings.  JSON values are        *)
(* records [kind, val]; a JSON object is a function from its keys.         *)
(* Record constructors list their fields in the order TLC keeps them.      *)
(*                                                                         *)
(* Spec          every route, requests well formed and malformed           *)
(* SpecIdent     validate_identifier on every string up to MaxStrLen       *)
(* SpecCreate    nodes with labels and properties                          *)
(* SpecMerge     property updates of a stored node and relationship        *)
(* SpecTopology  creation and deletion of nodes and relationships          *)
(* SpecPath      find_path on stored graphs                                *)
(* SpecNodeRels  get_node_relationships on stored graphs                   *)
(* SpecCypher    execute_cypher: row shapes and parameters                 *)
(* SpecBodies    request bodies of unexpected JSON types                   *)
(* SpecShare     file share: persons, uploads, downloads, edits, deletes   *)
(* SpecBatch     file share: batch uploads                                 *)
(* SpecPersons   file share: persons registered with names and emails      *)
(* SpecSanitize  sanitize_filename on every filename up to MaxStrLen       *)
(* SpecIntegrity creation, update and deletion of nodes and relationships  *)
(* SpecFrame     property updates in a graph of several nodes              *)
(* SpecDriver    the connection holder under requests served in parallel   *)
(* SpecRace      file share: POST /persons served in parallel              *)
(* SpecFaults    file share: uploads during which a database call fails    *)
(* SpecDelete    file share: soft delete and the requests that follow it   *)
(* SpecLookup    file share: the statements of the lookups                 *)
(***************************************************************************)
EXTENDS Integers, Sequences, FiniteSets, TLC

VARIABLES
    arg,          \* argument handed to a pure function under test
    ret,          \* what the pure function returned for arg
    nodes,        \* backend: live node id -> [labels, props]
    rels,         \* backend: live relationship id -> [type, start, end, props]
    driver,       \* neo4j_conn._driver: 0 is None, otherwise the driver object
    constructed,  \* how many times GraphDatabase.driver(...) has been called
    sessions,     \* sessions currently open on the backend
    req,          \* the request the service handled last, with its response
    gone,         \* history: node ids a deleteNode has answered 200 for
    disk,         \* file share: the files under UPLOAD_DIR, path -> bytes
    fs,           \* file share: the request handled last, with its response
    saved,        \* history: <<person, filename>> -> bytes last stored by them
    threads,      \* requests in flight: thread -> its position and its locals
    closed_drivers  \* the drivers close() has been called on

vars ==
    <<arg, ret, nodes, rels, driver, constructed, sessions, req, gone, disk, fs, saved,
      threads, closed_drivers>>

-----------------------------------------------------------------------------
(* Bounds of the model *)

MaxStrLen == 3
MaxNodes == 2
MaxRels == 1
MaxLabels == 2
MaxDrivers == 2

(* Program constants *)

MaxIdentifierLen == 65535
DefaultMaxDepth == 5
MinDepth == 1
MaxDepth == 15

-----------------------------------------------------------------------------
(* Strings and characters *)

LF == "\n"
Letters == {"A", "B", "k"}
Digits == {"1"}
Punct == {":", " "}
Chars == Letters \cup Digits \cup {"_"} \cup Punct \cup {LF}

RECURSIVE SeqsUpTo(_, _)
SeqsUpTo(S, n) ==
    IF n = 0 THEN {<<>>}
    ELSE LET shorter == SeqsUpTo(S, n - 1)
         IN  shorter \cup {Append(s, c) : s \in shorter, c \in S}

Strings == SeqsUpTo(Chars, MaxStrLen)

None == <<>>

(* re.compile(r'^[a-zA-Z_][a-zA-Z0-9_]*$'): the characters between ^ and $ *)
PatternBody(s) ==
    /\ Len(s) >= 1
    /\ s[1] \in Letters \cup {"_"}
    /\ \A i \in 2..Len(s) : s[i] \in Letters \cup Digits \cup {"_"}

(* IDENTIFIER_PATTERN.match(value): without re.MULTILINE, $ matches at the  *)
(* end of the string and also just before a newline that ends the string.   *)
IDENTIFIER_PATTERN_match(value) ==
    \/ PatternBody(value)
    \/ /\ Len(value) >= 1
       /\ value[Len(value)] = LF
       /\ PatternBody(SubSeq(value, 1, Len(value) - 1))

(* validate_identifier(value, name) -> (is_valid, error_message) *)
validate_identifier(value, name) ==
    IF value = <<>> THEN <<FALSE, <<name, " cannot be empty">> >>
    ELSE IF ~IDENTIFIER_PATTERN_match(value)
    THEN <<FALSE, <<name, " must contain only alphanumeric characters and underscores, and start with a letter">> >>
    ELSE IF Len(value) > MaxIdentifierLen
    THEN <<FALSE, <<name, " is too long (max 65535 characters)">> >>
    ELSE <<TRUE, None>>

(* validate_identifiers(values, name): the first failure, else (True, None) *)
RECURSIVE validate_identifiers(_, _)
validate_identifiers(values, name) ==
    IF values = <<>> THEN <<TRUE, None>>
    ELSE LET r == validate_identifier(Head(values), name)
         IN  IF ~r[1] THEN r ELSE validate_identifiers(Tail(values), name)

-----------------------------------------------------------------------------
(* JSON values of request bodies: [kind, val] *)

JNull == [kind |-> "null", val |-> 0]
JBool(b) == [kind |-> "bool", val |-> IF b THEN 1 ELSE 0]
JInt(n) == [kind |-> "int", val |-> n]
JFloat(n) == [kind |-> "float", val |-> n]
JStr(s) == [kind |-> "str", val |-> s]
JList(l) == [kind |-> "list", val |-> l]
JObj(f) == [kind |-> "obj", val |-> f]

EmptyDict == [k \in {} |-> 0]

(* Python truthiness: `if not x` *)
Truthy(j) ==
    CASE j.kind = "null" -> FALSE
      [] j.kind \in {"bool", "int", "float"} -> j.val # 0
      [] j.kind \in {"str", "list"} -> Len(j.val) > 0
      [] j.kind = "obj" -> DOMAIN j.val # {}

(* dict.get(key, default) and `key in dict` on a JSON object *)
Has(j, key) == key \in DOMAIN j.val
Get(j, key, default) == IF Has(j, key) THEN j.val[key] ELSE default

(* isinstance(x, int): bool is a subclass of int in Python *)
IsInstanceInt(j) == j.kind \in {"int", "bool"}

-----------------------------------------------------------------------------
(* The backend graph and the statements the handlers send to it *)

NodeIds == 1..MaxNodes
RelIds == 1..MaxRels
NoId == 0

PropKeys == {"name", "age"}
PlainVals == {"30", "31"}
Null == "null"
Nested == "{}"

Dicts(K, V) == UNION {[D -> V] : D \in SUBSET K}

NoError == <<>>

(* A statement: its text (the template), the labels / types spliced into   *)
(* the text, the other spliced part (the pattern of get_node_relationships, *)
(* the depth of find_path) and the bound parameters.                        *)
Stmt(text, spliced, shape, params) ==
    [text |-> text, spliced |-> spliced, shape |-> shape, params |-> params]

(* The backend's reading of a spliced label or type: trailing white space   *)
(* ends the name.                                                           *)
ParseName(s) ==
    IF Len(s) >= 1 /\ s[Len(s)] = LF THEN SubSeq(s, 1, Len(s) - 1) ELSE s

Range(f) == {f[i] : i \in DOMAIN f}

(* Property values the backend stores: null is no value, a nested map is    *)
(* refused.                                                                 *)
Storable(P) == \A k \in DOMAIN P : P[k] # Nested

SetKeys(P) == {k \in DOMAIN P : P[k] # Null}

(* CREATE (... $properties): null-valued entries are not stored *)
CreateProps(P) == [k \in SetKeys(P) |-> P[k]]

(* Variant: SET x = $properties, which replaces the stored map *)
MergeProps_replace(old, P) == [k \in SetKeys(P) |-> P[k]]

(* SET x += $properties: entries of P override, others stay, null removes *)
MergeProps(old, P) ==
    [k \in (DOMAIN old \ DOMAIN P) \cup SetKeys(P) |->
        IF k \in DOMAIN P THEN P[k] ELSE old[k]]

Result(n, r, rows, err) == [nodes |-> n, rels |-> r, rows |-> rows, err |-> err]

(* rows are records of the statement's RETURN: n / r by element id *)
NodeRow(i) == [n |-> i]
RelRow(i) == [r |-> i]

Incident(r, i) == r.start = i \/ r.end = i

(* One step of an undirected walk: the node reached from cur over rel x *)
Across(r, cur, x) ==
    IF r[x].start = cur THEN r[x].end
    ELSE IF r[x].end = cur THEN r[x].start
    ELSE NoId

RECURSIVE WalkEnd(_, _, _)
WalkEnd(r, cur, path) ==
    IF path = <<>> \/ cur = NoId THEN cur
    ELSE WalkEnd(r, Across(r, cur, Head(path)), Tail(path))

NoRepeat(path) == Cardinality(Range(path)) = Len(path)

Min(a, b) == IF a < b THEN a ELSE b

(* The walks of 1..depth relationships of the allowed types from a to b *)
PathsBetween(r, a, b, types, depth) ==
    {p \in SeqsUpTo(DOMAIN r, Min(depth, Cardinality(DOMAIN r))) :
        /\ Len(p) >= 1
        /\ NoRepeat(p)
        /\ \A i \in 1..Len(p) : types = {} \/ r[p[i]].type \in types
        /\ WalkEnd(r, a, p) = b}

ShortestPaths(r, a, b, types, depth) ==
    LET all == PathsBetween(r, a, b, types, depth)
    IN  {p \in all : \A q \in all : Len(p) <= Len(q)}

-----------------------------------------------------------------------------
(* Statement texts of the handlers (the f-string templates) *)

query ==
    [create_node |->
        "CREATE (n:{labels_str} $properties) RETURN n",
     get_node |->
        "MATCH (n) WHERE elementId(n) = $node_id RETURN n",
     update_node |->
        "MATCH (n) WHERE elementId(n) = $node_id SET n += $properties RETURN n",
     delete_node |->
        "MATCH (n) WHERE elementId(n) = $node_id DETACH DELETE n RETURN count(n) as deleted_count",
     get_nodes_by_label |->
        "MATCH (n:{label}) RETURN n",
     create_relationship |->
        "MATCH (a) WHERE elementId(a) = $from_node MATCH (b) WHERE elementId(b) = $to_node CREATE (a)-[r:{rel_type} $properties]->(b) RETURN r",
     get_relationship |->
        "MATCH ()-[r]->() WHERE elementId(r) = $relationship_id RETURN r",
     update_relationship |->
        "MATCH ()-[r]->() WHERE elementId(r) = $relationship_id SET r += $properties RETURN r",
     delete_relationship |->
        "MATCH ()-[r]->() WHERE elementId(r) = $relationship_id DELETE r RETURN count(r) as deleted_count",
     get_relationships_by_type |->
        "MATCH ()-[r:{rel_type}]->() RETURN r",
     get_node_relationships |->
        "MATCH (n){pattern} WHERE elementId(n) = $node_id RETURN r",
     find_path |->
        "MATCH path = shortestPath((a)-[{rel_filter}*..{max_depth}]-(b)) WHERE elementId(a) = $from_node AND elementId(b) = $to_node RETURN path",
     node_count |->
        "MATCH (n) RETURN count(n) as count",
     relationship_count |->
        "MATCH ()-[r]->() RETURN count(r) as count",
     labels |->
        "CALL db.labels()",
     relationship_types |->
        "CALL db.relationshipTypes()"]

(* the pattern of get_node_relationships by direction *)
patterns ==
    [all |-> "-[r]-()", incoming |-> "<-[r]-()", outgoing |-> "-[r]->()"]

(* what the backend says when it refuses a statement *)
Neo4jError ==
    [syntax |-> <<"Invalid input">>,
     property_type |-> <<"Property values can only be of primitive types or arrays thereof">>,
     same_node |-> <<"The shortest path algorithm does not work when the start and end nodes are the same">>,
     missing_parameter |-> <<"Expected parameter(s)">>]

(* an exception raised in the handler's own Python code, not by the backend *)
TypeError == <<"TypeError">>

Names(stmt) == {ParseName(stmt.spliced[i]) : i \in DOMAIN stmt.spliced}

Failed(n, r, err) == {Result(n, r, {}, err)}

(* Variant: CREATE (n:L1 $properties), only the first label is used *)
RunCreateNode_first_label(n, r, stmt) ==
    IF ~Storable(stmt.params.properties) THEN Failed(n, r, Neo4jError.property_type)
    ELSE {Result([j \in DOMAIN n \cup {i} |->
                     IF j = i
                     THEN [labels |-> {ParseName(stmt.spliced[1])},
                           props |-> CreateProps(stmt.params.properties)]
                     ELSE n[j]],
                 r, {NodeRow(i)}, NoError) : i \in NodeIds \ DOMAIN n}

(* CREATE (n:L1:L2 $properties) RETURN n; the backend assigns a free id *)
RunCreateNode(n, r, stmt) ==
    IF ~Storable(stmt.params.properties) THEN Failed(n, r, Neo4jError.property_type)
    ELSE {Result([j \in DOMAIN n \cup {i} |->
                     IF j = i
                     THEN [labels |-> Names(stmt),
                           props |-> CreateProps(stmt.params.properties)]
                     ELSE n[j]],
                 r, {NodeRow(i)}, NoError) : i \in NodeIds \ DOMAIN n}

RunGetNode(n, r, stmt) ==
    {Result(n, r, {NodeRow(i) : i \in DOMAIN n \cap {stmt.params.node_id}}, NoError)}

(* SET n += $properties on the matched node *)
(* Variant: SET without the WHERE clause, every node gets the properties *)
RunUpdateNode_every_node(n, r, stmt) ==
    LET i == stmt.params.node_id
    IN  IF i \notin DOMAIN n THEN {Result(n, r, {}, NoError)}
        ELSE IF ~Storable(stmt.params.properties) THEN Failed(n, r, Neo4jError.property_type)
        ELSE {Result([j \in DOMAIN n |->
                         [n[j] EXCEPT !.props = MergeProps(@, stmt.params.properties)]],
                     r, {NodeRow(i)}, NoError)}

RunUpdateNode(n, r, stmt) ==
    LET i == stmt.params.node_id
    IN  IF i \notin DOMAIN n THEN {Result(n, r, {}, NoError)}
        ELSE IF ~Storable(stmt.params.properties) THEN Failed(n, r, Neo4jError.property_type)
        ELSE {Result([n EXCEPT ![i].props = MergeProps(@, stmt.params.properties)],
                     r, {NodeRow(i)}, NoError)}

(* Variant: the node is removed and its relationships are left behind *)
RunDeleteNode_keep_relationships(n, r, stmt) ==
    LET i == stmt.params.node_id
        hit == DOMAIN n \cap {i}
    IN  IF hit = {} THEN {Result(n, r, {[deleted_count |-> 0]}, NoError)}
        ELSE {Result([j \in DOMAIN n \ {i} |-> n[j]], r,
                     {[deleted_count |-> 1]}, NoError)}

(* Variant: only the relationships that start at the node go with it *)
RunDeleteNode_outgoing_only(n, r, stmt) ==
    LET i == stmt.params.node_id
        hit == DOMAIN n \cap {i}
        keep == {x \in DOMAIN r : r[x].start # i}
    IN  IF hit = {} THEN {Result(n, r, {[deleted_count |-> 0]}, NoError)}
        ELSE {Result([j \in DOMAIN n \ {i} |-> n[j]],
                     [x \in keep |-> r[x]],
                     {[deleted_count |-> 1]}, NoError)}

(* DETACH DELETE n: the node and every relationship attached to it *)
RunDeleteNode(n, r, stmt) ==
    LET i == stmt.params.node_id
        hit == DOMAIN n \cap {i}
        keep == {x \in DOMAIN r : ~Incident(r[x], i)}
    IN  IF hit = {} THEN {Result(n, r, {[deleted_count |-> 0]}, NoError)}
        ELSE {Result([j \in DOMAIN n \ {i} |-> n[j]],
                     [x \in keep |-> r[x]],
                     {[deleted_count |-> 1]}, NoError)}

RunNodesByLabel(n, r, stmt) ==
    {Result(n, r,
            {NodeRow(i) : i \in {j \in DOMAIN n : Names(stmt) \subseteq n[j].labels}},
            NoError)}

(* Variant: CREATE without the two MATCH clauses, endpoints not looked up *)
RunCreateRel_unmatched(n, r, stmt) ==
    LET a == stmt.params.from_node
        b == stmt.params.to_node
    IN  IF ~Storable(stmt.params.properties) THEN Failed(n, r, Neo4jError.property_type)
        ELSE {Result(n,
                     [y \in DOMAIN r \cup {x} |->
                         IF y = x
                         THEN [start |-> a, end |-> b,
                               type |-> ParseName(stmt.spliced[1]),
                               props |-> CreateProps(stmt.params.properties)]
                         ELSE r[y]],
                     {RelRow(x)}, NoError) : x \in RelIds \ DOMAIN r}

(* MATCH (a), MATCH (b), CREATE (a)-[r:T $properties]->(b) RETURN r *)
RunCreateRel(n, r, stmt) ==
    LET a == stmt.params.from_node
        b == stmt.params.to_node
    IN  IF a \notin DOMAIN n \/ b \notin DOMAIN n THEN {Result(n, r, {}, NoError)}
        ELSE IF ~Storable(stmt.params.properties) THEN Failed(n, r, Neo4jError.property_type)
        ELSE {Result(n,
                     [y \in DOMAIN r \cup {x} |->
                         IF y = x
                         THEN [start |-> a, end |-> b,
                               type |-> ParseName(stmt.spliced[1]),
                               props |-> CreateProps(stmt.params.properties)]
                         ELSE r[y]],
                     {RelRow(x)}, NoError) : x \in RelIds \ DOMAIN r}

RunGetRel(n, r, stmt) ==
    {Result(n, r, {RelRow(x) : x \in DOMAIN r \cap {stmt.params.relationship_id}}, NoError)}

RunUpdateRel(n, r, stmt) ==
    LET x == stmt.params.relationship_id
    IN  IF x \notin DOMAIN r THEN {Result(n, r, {}, NoError)}
        ELSE IF ~Storable(stmt.params.properties) THEN Failed(n, r, Neo4jError.property_type)
        ELSE {Result(n, [r EXCEPT ![x].props = MergeProps(@, stmt.params.properties)],
                     {RelRow(x)}, NoError)}

RunDeleteRel(n, r, stmt) ==
    LET x == stmt.params.relationship_id
    IN  IF x \notin DOMAIN r THEN {Result(n, r, {[deleted_count |-> 0]}, NoError)}
        ELSE {Result(n, [y \in DOMAIN r \ {x} |-> r[y]],
                     {[deleted_count |-> 1]}, NoError)}

RunRelsByType(n, r, stmt) ==
    {Result(n, r,
            {RelRow(x) : x \in {y \in DOMAIN r : r[y].type \in Names(stmt)}},
            NoError)}

(* MATCH (n)<-[r]-() / (n)-[r]->() / (n)-[r]-(), optionally [r:T] *)
RunNodeRels(n, r, stmt) ==
    LET i == stmt.params.node_id
        dir(x) == CASE stmt.shape = patterns.incoming -> r[x].end = i
                    [] stmt.shape = patterns.outgoing -> r[x].start = i
                    [] OTHER -> Incident(r[x], i)
        typed(x) == stmt.spliced = <<>> \/ r[x].type \in Names(stmt)
    IN  {Result(n, r,
                {RelRow(x) : x \in {y \in DOMAIN r : i \in DOMAIN n /\ dir(y) /\ typed(y)}},
                NoError)}

(* shortestPath((a)-[:T1|T2*..d]-(b)): the depth is part of the text, so a  *)
(* depth that is no integer literal does not parse.                         *)
RunPath(n, r, stmt) ==
    LET a == stmt.params.from_node
        b == stmt.params.to_node
    IN  IF stmt.shape.kind # "int" THEN Failed(n, r, Neo4jError.syntax)
        ELSE IF a \notin DOMAIN n \/ b \notin DOMAIN n THEN {Result(n, r, {}, NoError)}
        ELSE IF a = b THEN Failed(n, r, Neo4jError.same_node)
        ELSE LET ps == ShortestPaths(r, a, b, Names(stmt), stmt.shape.val)
             IN  IF ps = {} THEN {Result(n, r, {}, NoError)}
                 ELSE {Result(n, r, {[path |-> p]}, NoError) : p \in ps}

(* Statements a caller of /query/cypher sends *)
cypher ==
    [path |-> "MATCH p = ()-[]->() RETURN p",
     nodes_by_label |-> "MATCH (n:A) RETURN n",
     endpoints |-> "MATCH (a)-[r]->(b) RETURN a, r, b",
     collect |-> "MATCH (n) RETURN collect(n) AS ns",
     echo_p |-> "RETURN $p AS v",
     echo_query |-> "RETURN $query AS v",
     echo_parameters |-> "RETURN $parameters AS v",
     malformed |-> "MATCH (n"]

(* the $name an echo statement reads *)
EchoName(text) ==
    CASE text = cypher.echo_p -> "p"
      [] text = cypher.echo_query -> "query"
      [] text = cypher.echo_parameters -> "parameters"

(* values of a result row: graph entities by element id, or plain values *)
NodeValue(i) == [kind |-> "Node", val |-> i]
RelationshipValue(x) == [kind |-> "Relationship", val |-> x]
PathValue(p) == [kind |-> "Path", val |-> p]

(* the orders in which the backend can stream a set of rows *)
Orderings(S) ==
    {s \in SeqsUpTo(S, Cardinality(S)) : Len(s) = Cardinality(S) /\ NoRepeat(s)}

Bound(exc, params) == [params |-> params, exc |-> exc]

(* session.run(query, **parameters) against run(self, query,                *)
(* parameters=None, **kwargs): the keys of the caller's mapping become      *)
(* keyword arguments; the query parameters are dict(parameters or {},       *)
(* **kwargs).                                                               *)
Bind(parameters) ==
    IF parameters.kind # "obj" THEN Bound(TRUE, EmptyDict)
    ELSE LET kw == parameters.val
             kwargs == [k \in DOMAIN kw \ {"parameters"} |-> kw[k]]
         IN  IF "query" \in DOMAIN kw THEN Bound(TRUE, EmptyDict)
             ELSE IF "parameters" \notin DOMAIN kw THEN Bound(FALSE, kw)
             ELSE IF ~Truthy(kw["parameters"]) THEN Bound(FALSE, kwargs)
             ELSE IF kw["parameters"].kind # "obj" THEN Bound(TRUE, EmptyDict)
             ELSE Bound(FALSE,
                        [k \in DOMAIN kw["parameters"].val \cup DOMAIN kwargs |->
                            IF k \in DOMAIN kwargs THEN kwargs[k]
                            ELSE kw["parameters"].val[k]])

(* the backend's answer to a caller-supplied statement; rows keep the      *)
(* order in which they are streamed                                        *)
RunCypher(n, r, stmt) ==
    LET b == Bind(stmt.params)
    IN  IF b.exc THEN {Result(n, r, <<>>, TypeError)}
        ELSE CASE stmt.text = cypher.nodes_by_label ->
                    {Result(n, r, rows, NoError) :
                        rows \in Orderings({[n |-> NodeValue(i)] :
                                    i \in {j \in DOMAIN n : <<"A">> \in n[j].labels}})}
               [] stmt.text = cypher.endpoints ->
                    {Result(n, r, rows, NoError) :
                        rows \in Orderings({[r |-> RelationshipValue(x),
                                             b |-> NodeValue(r[x].end),
                                             a |-> NodeValue(r[x].start)] : x \in DOMAIN r})}
               [] stmt.text = cypher.collect ->
                    {Result(n, r, <<[ns |-> JList(ids)]>>, NoError) :
                        ids \in Orderings({NodeValue(i) : i \in DOMAIN n})}
               [] stmt.text = cypher.path ->
                    {Result(n, r, rows, NoError) :
                        rows \in Orderings({[p |-> PathValue(<<x>>)] : x \in DOMAIN r})}
               [] stmt.text \in {cypher.echo_p, cypher.echo_query, cypher.echo_parameters} ->
                    IF EchoName(stmt.text) \in DOMAIN b.params
                    THEN {Result(n, r, <<[v |-> b.params[EchoName(stmt.text)]]>>, NoError)}
                    ELSE {Result(n, r, <<>>, Neo4jError.missing_parameter)}
               [] OTHER -> {Result(n, r, <<>>, Neo4jError.syntax)}

RunStats(n, r, stmt) ==
    CASE stmt.text = query.node_count ->
            {Result(n, r, {[count |-> Cardinality(DOMAIN n)]}, NoError)}
      [] stmt.text = query.relationship_count ->
            {Result(n, r, {[count |-> Cardinality(DOMAIN r)]}, NoError)}
      [] stmt.text = query.labels ->
            {Result(n, r, {[label |-> l] : l \in UNION {n[i].labels : i \in DOMAIN n}}, NoError)}
      [] stmt.text = query.relationship_types ->
            {Result(n, r, {[relationshipType |-> r[x].type] : x \in DOMAIN r}, NoError)}

(* session.run(query, **params): every result the backend can give *)
Run(n, r, stmt) ==
    CASE stmt.text = query.create_node -> RunCreateNode(n, r, stmt)
      [] stmt.text = query.get_node -> RunGetNode(n, r, stmt)
      [] stmt.text = query.update_node -> RunUpdateNode(n, r, stmt)
      [] stmt.text = query.delete_node -> RunDeleteNode(n, r, stmt)
      [] stmt.text = query.get_nodes_by_label -> RunNodesByLabel(n, r, stmt)
      [] stmt.text = query.create_relationship -> RunCreateRel(n, r, stmt)
      [] stmt.text = query.get_relationship -> RunGetRel(n, r, stmt)
      [] stmt.text = query.update_relationship -> RunUpdateRel(n, r, stmt)
      [] stmt.text = query.delete_relationship -> RunDeleteRel(n, r, stmt)
      [] stmt.text = query.get_relationships_by_type -> RunRelsByType(n, r, stmt)
      [] stmt.text = query.get_node_relationships -> RunNodeRels(n, r, stmt)
      [] stmt.text = query.find_path -> RunPath(n, r, stmt)
      [] stmt.text \in {cypher[k] : k \in DOMAIN cypher} -> RunCypher(n, r, stmt)
      [] OTHER -> RunStats(n, r, stmt)

-----------------------------------------------------------------------------
(* Records returned to the client *)

(* node_to_dict(node); list(node.labels) is kept as the set it lists *)
node_to_dict(n, i) ==
    [labels |-> n[i].labels, properties |-> n[i].props, id |-> i]

(* relationship_to_dict(relationship) *)
relationship_to_dict(r, x) ==
    [type |-> r[x].type, properties |-> r[x].props, id |-> x,
     start_node_id |-> r[x].start, end_node_id |-> r[x].end]

NoBody == [none |-> TRUE]

Response(status, error, body) == [status |-> status, error |-> error, body |-> body]

(* What a handler does before its try block: either an early 400 or the     *)
(* statements to send.  checked holds the identifiers that were handed to   *)
(* validate_identifier and passed.                                          *)
Reject(error, checked) ==
    [status |-> 400, error |-> error, checked |-> checked, stmts |-> <<>>]

Proceed(checked, stmts) ==
    [status |-> 0, error |-> NoError, checked |-> checked, stmts |-> stmts]

(* for value in values: the elements a Python loop visits *)
Iter(j) ==
    IF j.kind = "str" THEN [i \in 1..Len(j.val) |-> <<j.val[i]>>] ELSE j.val

(* The elements validate_identifiers has accepted when it returns: those   *)
(* up to the first one that fails                                           *)
Passed(values, name) ==
    {values[i] : i \in {j \in DOMAIN values :
                          \A k \in 1..j : validate_identifier(values[k], name)[1]}}

One(rows) == CHOOSE row \in rows : TRUE

-----------------------------------------------------------------------------
(* Node handlers (routes/nodes.py; app.py holds the same code) *)

create_node_plan(data) ==
    IF ~Truthy(data) THEN Reject(<<"No data provided">>, {})
    ELSE LET labels == Get(data, "labels", JList(<<>>))
             properties == Get(data, "properties", EmptyDict)
         IN  IF ~Truthy(labels)
             THEN Reject(<<"At least one label is required">>, {})
             ELSE LET v == validate_identifiers(Iter(labels), "label")
                      ok == Passed(Iter(labels), "label")
                  IN  IF ~v[1] THEN Reject(v[2], ok)
                      ELSE Proceed(ok, <<Stmt(query.create_node, Iter(labels), 0,
                                              [properties |-> properties])>>)

create_node_reply(rs) ==
    IF rs[1].rows # {}
    THEN Response(201, NoError, node_to_dict(rs[1].nodes, One(rs[1].rows).n))
    ELSE Response(500, <<"Failed to create node">>, NoBody)

get_node_plan(node_id) ==
    Proceed({}, <<Stmt(query.get_node, <<>>, 0, [node_id |-> node_id])>>)

get_node_reply(rs) ==
    IF rs[1].rows # {}
    THEN Response(200, NoError, node_to_dict(rs[1].nodes, One(rs[1].rows).n))
    ELSE Response(404, <<"Node not found">>, NoBody)

update_node_plan(node_id, data) ==
    IF ~Truthy(data) \/ ~Has(data, "properties")
    THEN Reject(<<"No properties provided">>, {})
    ELSE Proceed({}, <<Stmt(query.update_node, <<>>, 0,
                            [properties |-> data.val["properties"], node_id |-> node_id])>>)

update_node_reply(rs) ==
    IF rs[1].rows # {}
    THEN Response(200, NoError, node_to_dict(rs[1].nodes, One(rs[1].rows).n))
    ELSE Response(404, <<"Node not found">>, NoBody)

delete_node_plan(node_id) ==
    Proceed({}, <<Stmt(query.delete_node, <<>>, 0, [node_id |-> node_id])>>)

delete_node_reply(rs) ==
    IF rs[1].rows # {} /\ One(rs[1].rows).deleted_count > 0
    THEN Response(200, NoError, [message |-> "Node deleted successfully"])
    ELSE Response(404, <<"Node not found">>, NoBody)

get_nodes_by_label_plan(label) ==
    LET v == validate_identifier(label, "label")
    IN  IF ~v[1] THEN Reject(v[2], {})
        ELSE Proceed({label}, <<Stmt(query.get_nodes_by_label, <<label>>, 0, EmptyDict)>>)

get_nodes_by_label_reply(rs) ==
    Response(200, NoError,
             [nodes |-> {node_to_dict(rs[1].nodes, row.n) : row \in rs[1].rows},
              count |-> Cardinality(rs[1].rows)])

-----------------------------------------------------------------------------
(* Relationship handlers (routes/relationships.py) *)

(* Element ids in a body are non-empty strings (NoId is one that names no  *)
(* element), so `not from_node` is: the key is missing.                    *)

create_relationship_plan(data) ==
    IF ~Truthy(data) THEN Reject(<<"No data provided">>, {})
    ELSE LET rel_type == Get(data, "type", JNull)
             properties == Get(data, "properties", EmptyDict)
         IN  IF ~Has(data, "from_node") \/ ~Has(data, "to_node") \/ ~Truthy(rel_type)
             THEN Reject(<<"from_node, to_node, and type are required">>, {})
             ELSE LET v == validate_identifier(rel_type.val, "relationship type")
                  IN  IF ~v[1] THEN Reject(v[2], {})
                      ELSE Proceed({rel_type.val},
                                   <<Stmt(query.create_relationship, <<rel_type.val>>, 0,
                                          [properties |-> properties,
                                           from_node |-> data.val["from_node"],
                                           to_node |-> data.val["to_node"]])>>)

create_relationship_reply(rs) ==
    IF rs[1].rows # {}
    THEN Response(201, NoError, relationship_to_dict(rs[1].rels, One(rs[1].rows).r))
    ELSE Response(404, <<"Failed to create relationship. Nodes may not exist.">>, NoBody)

get_relationship_plan(relationship_id) ==
    Proceed({}, <<Stmt(query.get_relationship, <<>>, 0, [relationship_id |-> relationship_id])>>)

get_relationship_reply(rs) ==
    IF rs[1].rows # {}
    THEN Response(200, NoError, relationship_to_dict(rs[1].rels, One(rs[1].rows).r))
    ELSE Response(404, <<"Relationship not found">>, NoBody)

update_relationship_plan(relationship_id, data) ==
    IF ~Truthy(data) \/ ~Has(data, "properties")
    THEN Reject(<<"No properties provided">>, {})
    ELSE Proceed({}, <<Stmt(query.update_relationship, <<>>, 0,
                            [properties |-> data.val["properties"],
                             relationship_id |-> relationship_id])>>)

update_relationship_reply(rs) ==
    IF rs[1].rows # {}
    THEN Response(200, NoError, relationship_to_dict(rs[1].rels, One(rs[1].rows).r))
    ELSE Response(404, <<"Relationship not found">>, NoBody)

delete_relationship_plan(relationship_id) ==
    Proceed({}, <<Stmt(query.delete_relationship, <<>>, 0, [relationship_id |-> relationship_id])>>)

delete_relationship_reply(rs) ==
    IF rs[1].rows # {} /\ One(rs[1].rows).deleted_count > 0
    THEN Response(200, NoError, [message |-> "Relationship deleted successfully"])
    ELSE Response(404, <<"Relationship not found">>, NoBody)

get_relationships_by_type_plan(rel_type) ==
    LET v == validate_identifier(rel_type, "relationship type")
    IN  IF ~v[1] THEN Reject(v[2], {})
        ELSE Proceed({rel_type}, <<Stmt(query.get_relationships_by_type, <<rel_type>>, 0, EmptyDict)>>)

get_relationships_by_type_reply(rs) ==
    Response(200, NoError,
             [count |-> Cardinality(rs[1].rows),
              relationships |-> {relationship_to_dict(rs[1].rels, row.r) : row \in rs[1].rows}])

-----------------------------------------------------------------------------
(* Query handlers (routes/queries.py) and statistics (routes/utils.py) *)

(* Variant: the type filter goes into the pattern without validation *)
get_node_relationships_plan_unvalidated(node_id, args) ==
    LET direction == IF "direction" \in DOMAIN args THEN args["direction"] ELSE "all"
        rel_type == IF "type" \in DOMAIN args THEN args["type"] ELSE <<>>
        pattern == CASE direction = "incoming" -> patterns.incoming
                     [] direction = "outgoing" -> patterns.outgoing
                     [] OTHER -> patterns.all
    IN  Proceed({},
                <<Stmt(query.get_node_relationships,
                       IF rel_type # <<>> THEN <<rel_type>> ELSE <<>>,
                       pattern, [node_id |-> node_id])>>)

(* request.args: a dict of strings; a missing or empty type is not used *)
get_node_relationships_plan(node_id, args) ==
    LET direction == IF "direction" \in DOMAIN args THEN args["direction"] ELSE "all"
        rel_type == IF "type" \in DOMAIN args THEN args["type"] ELSE <<>>
        pattern == CASE direction = "incoming" -> patterns.incoming
                     [] direction = "outgoing" -> patterns.outgoing
                     [] OTHER -> patterns.all
        v == validate_identifier(rel_type, "relationship type")
    IN  IF rel_type # <<>> /\ ~v[1] THEN Reject(v[2], {})
        ELSE Proceed(IF rel_type # <<>> THEN {rel_type} ELSE {},
                     <<Stmt(query.get_node_relationships,
                            IF rel_type # <<>> THEN <<rel_type>> ELSE <<>>,
                            pattern, [node_id |-> node_id])>>)

get_node_relationships_reply(rs) ==
    Response(200, NoError,
             [count |-> Cardinality(rs[1].rows),
              relationships |-> {relationship_to_dict(rs[1].rels, row.r) : row \in rs[1].rows}])

(* if not isinstance(max_depth, int) or max_depth < 1 or max_depth > 15 *)
BadDepth(max_depth) ==
    \/ ~IsInstanceInt(max_depth)
    \/ max_depth.val < MinDepth
    \/ max_depth.val > MaxDepth

find_path_plan(data) ==
    IF ~Truthy(data) THEN Reject(<<"No data provided">>, {})
    ELSE LET max_depth == Get(data, "max_depth", JInt(DefaultMaxDepth))
             rel_types == Get(data, "relationship_types", JNull)
         IN  IF ~Has(data, "from_node") \/ ~Has(data, "to_node")
             THEN Reject(<<"from_node and to_node are required">>, {})
             ELSE IF BadDepth(max_depth)
             THEN Reject(<<"max_depth must be an integer between 1 and 15">>, {})
             ELSE IF ~Truthy(rel_types)
             THEN Proceed({}, <<Stmt(query.find_path, <<>>, max_depth,
                                     [from_node |-> data.val["from_node"],
                                      to_node |-> data.val["to_node"]])>>)
             ELSE LET v == validate_identifiers(Iter(rel_types), "relationship type")
                      ok == Passed(Iter(rel_types), "relationship type")
                  IN  IF ~v[1] THEN Reject(v[2], ok)
                      ELSE Proceed(ok, <<Stmt(query.find_path, Iter(rel_types), max_depth,
                                              [from_node |-> data.val["from_node"],
                                               to_node |-> data.val["to_node"]])>>)

(* path.nodes: the nodes a path visits, from its start *)
RECURSIVE PathNodes(_, _, _)
PathNodes(r, cur, path) ==
    IF path = <<>> THEN <<cur>>
    ELSE <<cur>> \o PathNodes(r, Across(r, cur, Head(path)), Tail(path))

find_path_reply(rs, from_node) ==
    IF rs[1].rows # {}
    THEN LET path == One(rs[1].rows).path
             pn == PathNodes(rs[1].rels, from_node, path)
         IN  Response(200, NoError,
                 [path |-> [nodes |-> [i \in DOMAIN pn |-> node_to_dict(rs[1].nodes, pn[i])],
                            relationships |->
                                [i \in DOMAIN path |-> relationship_to_dict(rs[1].rels, path[i])],
                            length |-> Len(path)]])
    ELSE Response(404, <<"No path found between the nodes">>, NoBody)

get_stats_plan ==
    Proceed({}, <<Stmt(query.node_count, <<>>, 0, EmptyDict),
                  Stmt(query.relationship_count, <<>>, 0, EmptyDict),
                  Stmt(query.labels, <<>>, 0, EmptyDict),
                  Stmt(query.relationship_types, <<>>, 0, EmptyDict)>>)

get_stats_reply(rs) ==
    Response(200, NoError,
             [stats |-> [node_count |-> One(rs[1].rows).count,
                         relationship_count |-> One(rs[2].rows).count,
                         labels |-> {row.label : row \in rs[3].rows},
                         relationship_types |-> {row.relationshipType : row \in rs[4].rows}]])

(* if not data or 'query' not in data *)
execute_cypher_plan(data) ==
    IF ~Truthy(data) \/ ~Has(data, "query")
    THEN Reject(<<"No query provided">>, {})
    ELSE Proceed({}, <<Stmt(data.val["query"], <<>>, 0,
                            Get(data, "parameters", JObj(EmptyDict)))>>)

(* hasattr(value, 'labels') / hasattr(value, 'type') and                    *)
(* hasattr(value, 'start_node'): a Path has start_node but neither labels   *)
(* nor type                                                                 *)
HasAttr(value, name) ==
    CASE name = "labels" -> value.kind = "Node"
      [] name = "type" -> value.kind = "Relationship"
      [] name = "start_node" -> value.kind \in {"Relationship", "Path"}
      [] OTHER -> FALSE

(* the value put into record_dict[key] *)
ConvertValue(rs, value) ==
    IF HasAttr(value, "labels") THEN node_to_dict(rs.nodes, value.val)
    ELSE IF HasAttr(value, "type") /\ HasAttr(value, "start_node")
    THEN relationship_to_dict(rs.rels, value.val)
    ELSE value

(* jsonify(...): dicts, lists and scalars are written; a graph object left *)
(* in the value (a Path, or an entity inside a list) raises TypeError      *)
Serialisable(value) ==
    CASE value.kind \in {"Node", "Relationship"} -> TRUE
      [] value.kind = "Path" -> FALSE
      [] value.kind = "list" ->
            \A i \in DOMAIN value.val :
                value.val[i].kind \notin {"Node", "Relationship", "Path"}
      [] OTHER -> TRUE

execute_cypher_reply(rs) ==
    LET rows == rs[1].rows
        records == [i \in DOMAIN rows |->
                      [key \in DOMAIN rows[i] |-> ConvertValue(rs[1], rows[i][key])]]
    IN  IF \A i \in DOMAIN rows : \A key \in DOMAIN rows[i] : Serialisable(rows[i][key])
        THEN Response(200, NoError, [count |-> Len(records), results |-> records])
        ELSE Response(500, <<"Internal server error">>, NoBody)

-----------------------------------------------------------------------------
(* The connection holder (db.py) *)

(* Neo4jConnection.get_driver: construct on first use, else reuse *)
get_driver(d, c) ==
    IF d = 0
    THEN [driver |-> Min(c + 1, MaxDrivers), constructed |-> Min(c + 1, MaxDrivers)]
    ELSE [driver |-> d, constructed |-> c]

(* Neo4jConnection.close: close the driver and forget it *)
close(d) == 0

(* teardown_db: runs when the application context of a request is popped *)
teardown_db(d) == close(d)

(* with driver.session() as session: __enter__ and __exit__ *)
NewSession(S) == CHOOSE k \in 1..(Cardinality(S) + 1) : k \notin S

session_enter(S) == {s : s \in S \cup {NewSession(S)}}

(* Variant: a session that is closed only when the block ends normally *)
session_exit_on_success(S, k, exc) == IF exc = "none" THEN {s \in S : s # k} ELSE S

(* __exit__ closes the session however the block was left *)
session_exit(S, k, exc) == {s \in S : s # k}

-----------------------------------------------------------------------------
(* One request, from the handler's first line to the teardown *)

Ops == {"create_node", "get_node", "update_node", "delete_node",
        "get_nodes_by_label", "create_relationship", "get_relationship",
        "update_relationship", "delete_relationship",
        "get_relationships_by_type", "get_node_relationships", "find_path",
        "get_stats", "execute_cypher"}

(* in: [path |-> the <...> part of the URL, data |-> the JSON body,        *)
(*      args |-> the query string]                                          *)
Input(path, data, args) == [path |-> path, data |-> data, args |-> args]

Plan(op, in) ==
    CASE op = "create_node" -> create_node_plan(in.data)
      [] op = "get_node" -> get_node_plan(in.path)
      [] op = "update_node" -> update_node_plan(in.path, in.data)
      [] op = "delete_node" -> delete_node_plan(in.path)
      [] op = "get_nodes_by_label" -> get_nodes_by_label_plan(in.path)
      [] op = "create_relationship" -> create_relationship_plan(in.data)
      [] op = "get_relationship" -> get_relationship_plan(in.path)
      [] op = "update_relationship" -> update_relationship_plan(in.path, in.data)
      [] op = "delete_relationship" -> delete_relationship_plan(in.path)
      [] op = "get_relationships_by_type" -> get_relationships_by_type_plan(in.path)
      [] op = "get_node_relationships" -> get_node_relationships_plan(in.path, in.args)
      [] op = "find_path" -> find_path_plan(in.data)
      [] op = "get_stats" -> get_stats_plan
      [] op = "execute_cypher" -> execute_cypher_plan(in.data)

Reply(op, in, rs) ==
    CASE op = "create_node" -> create_node_reply(rs)
      [] op = "get_node" -> get_node_reply(rs)
      [] op = "update_node" -> update_node_reply(rs)
      [] op = "delete_node" -> delete_node_reply(rs)
      [] op = "get_nodes_by_label" -> get_nodes_by_label_reply(rs)
      [] op = "create_relationship" -> create_relationship_reply(rs)
      [] op = "get_relationship" -> get_relationship_reply(rs)
      [] op = "update_relationship" -> update_relationship_reply(rs)
      [] op = "delete_relationship" -> delete_relationship_reply(rs)
      [] op = "get_relationships_by_type" -> get_relationships_by_type_reply(rs)
      [] op = "get_node_relationships" -> get_node_relationships_reply(rs)
      [] op = "find_path" -> find_path_reply(rs, in.data.val["from_node"])
      [] op = "get_stats" -> get_stats_reply(rs)
      [] op = "execute_cypher" -> execute_cypher_reply(rs)

(* The statements of a session block, one after the other; the block is     *)
(* left at the first statement the backend refuses.                         *)
RECURSIVE RunAll(_, _, _)
RunAll(n, r, stmts) ==
    IF stmts = <<>>
    THEN {[nodes |-> n, rels |-> r, err |-> NoError, results |-> <<>>]}
    ELSE UNION {
           IF res.err # NoError
           THEN {[nodes |-> res.nodes, rels |-> res.rels, err |-> res.err, results |-> <<res>>]}
           ELSE {[t EXCEPT !.results = <<res>> \o @] :
                    t \in RunAll(res.nodes, res.rels, Tail(stmts))}
           : res \in Run(n, r, Head(stmts))}

Faults == {"none", "Neo4jError", "Exception"}

BackendDown == <<"Unable to retrieve routing information">>

(* What the try block can come to: exc is the exception it is left with *)
Attempt(stmts, fault, n, r) ==
    IF fault = "none"
    THEN {[nodes |-> t.nodes, rels |-> t.rels, err |-> t.err,
           exc |-> IF t.err = NoError THEN "none"
                   ELSE IF t.err = TypeError THEN "Exception"
                   ELSE "Neo4jError",
           results |-> t.results] :
             t \in RunAll(n, r, stmts)}
    ELSE {[nodes |-> n, rels |-> r, err |-> BackendDown, exc |-> fault, results |-> <<>>]}

(* except Neo4jError / except Exception / the block's own return *)
Respond(op, in, out) ==
    CASE out.exc = "Neo4jError" -> Response(500, <<"Database error: ">> \o out.err, NoBody)
      [] out.exc = "Exception" -> Response(500, <<"Internal server error">>, NoBody)
      [] OTHER -> Reply(op, in, out.results)

(* The handlers exist twice, in app.py and as blueprints under routes/.    *)
(* The copies answer alike except create_relationship of the blueprint,    *)
(* whose except Exception branch adds "message": str(e) to the body.       *)
Respond_blueprint(op, in, out) ==
    IF out.exc = "Exception" /\ op = "create_relationship"
    THEN Response(500, <<"Internal server error">>, [message |-> out.err])
    ELSE Respond(op, in, out)

Responses(op, in, out) ==
    {resp : resp \in {Respond(op, in, out), Respond_blueprint(op, in, out)}}

NoReturn == [out |-> <<FALSE, None>>, fn |-> "none"]

(* a form field or a part the file share request does not carry *)
Absent == <<"absent">>

NoFsRequest ==
    [status |-> 0, error |-> NoError, body |-> NoBody, op |-> "none",
     person |-> Absent, filename |-> <<>>, files |-> <<>>, email |-> Absent]

(* no request is in flight *)
NoThreads == <<>>

NoRequest ==
    [status |-> 0, error |-> NoError, body |-> NoBody,
     checked |-> {}, op |-> "none", in |-> Input(NoId, JNull, EmptyDict),
     fault |-> "none", sent |-> <<>>, got_db |-> FALSE, opened |-> 0, closed |-> 0]

Init ==
    /\ arg = <<>>
    /\ ret = NoReturn
    /\ nodes = EmptyDict
    /\ rels = EmptyDict
    /\ driver = 0
    /\ constructed = 0
    /\ sessions = {}
    /\ req = NoRequest
    /\ gone = {}
    /\ disk = EmptyDict
    /\ fs = NoFsRequest
    /\ saved = EmptyDict
    /\ threads = NoThreads
    /\ closed_drivers = {}

(* The history of deleted node ids, kept where track is set *)
Gone(g, op, in, status, track) ==
    IF track /\ op = "delete_node" /\ status = 200
    THEN {i : i \in g \cup {in.path}}
    ELSE g

(* Variant: the handler validates inside the try block, after get_db() and  *)
(* with the session open                                                    *)
Rejected_inside_try(op, in, plan, track) ==
    /\ plan.status = 400
    /\ LET conn == get_driver(driver, constructed)
           inside == session_enter(sessions)
           after == session_exit(inside, NewSession(sessions), "none")
       IN  /\ req' = [NoRequest EXCEPT !.op = op, !.in = in,
                                      !.status = 400, !.error = plan.error,
                                      !.checked = plan.checked,
                                      !.got_db = TRUE,
                                      !.opened = Cardinality(inside \ sessions),
                                      !.closed = Cardinality(inside \ after)]
           /\ constructed' = conn.constructed
           /\ driver' = teardown_db(conn.driver)
           /\ sessions' = after
    /\ UNCHANGED <<arg, ret, nodes, rels, gone, disk, fs, saved,
                   threads, closed_drivers>>

(* A request that is answered before the try block *)
Rejected(op, in, plan, track) ==
    /\ plan.status = 400
    /\ req' = [NoRequest EXCEPT !.op = op, !.in = in,
                               !.status = 400, !.error = plan.error,
                               !.checked = plan.checked]
    /\ driver' = teardown_db(driver)
    /\ UNCHANGED <<arg, ret, nodes, rels, constructed, sessions, gone, disk, fs, saved,
                   threads, closed_drivers>>

(* A request that enters the try block: get_db, the session block, the      *)
(* response, and the teardown of the application context.                   *)
Served(op, in, plan, fault, track) ==
    /\ plan.status = 0
    /\ \E out \in Attempt(plan.stmts, fault, nodes, rels) :
       \E resp \in Responses(op, in, out) :
         LET conn == get_driver(driver, constructed)
             inside == session_enter(sessions)
             k == NewSession(sessions)
             after == session_exit(inside, k, out.exc)
         IN  /\ nodes' = out.nodes
             /\ rels' = out.rels
             /\ constructed' = conn.constructed
             /\ driver' = teardown_db(conn.driver)
             /\ closed_drivers' = closed_drivers \cup {conn.driver}
             /\ sessions' = after
             /\ req' = [status |-> resp.status, error |-> resp.error, body |-> resp.body,
                        checked |-> plan.checked,
                        op |-> op,
                        in |-> in,
                        fault |-> fault,
                        sent |-> IF fault = "none"
                                 THEN SubSeq(plan.stmts, 1, Len(out.results))
                                 ELSE <<Head(plan.stmts)>>,
                        got_db |-> TRUE,
                        opened |-> Cardinality(inside \ sessions),
                        closed |-> Cardinality(inside \ after)]
             /\ gone' = Gone(gone, op, in, resp.status, track)
    /\ UNCHANGED <<arg, ret, disk, fs, saved, threads>>

Handle(op, in, track) ==
    LET plan == Plan(op, in)
    IN  \/ Rejected(op, in, plan, track)
        \/ \E fault \in Faults : Served(op, in, plan, fault, track)

-----------------------------------------------------------------------------
(* Inputs the clients send *)

LabelA == <<"A">>
LabelB == <<"B">>
TypeK == <<"k">>

(* identifiers as they arrive: two that match the grammar, one that ends in *)
(* a newline, the empty string, one with a colon                            *)
Idents == {LabelA, <<"A", LF>>, <<>>, <<"A", ":">>}

IdentLists == SeqsUpTo({LabelA, <<>>, <<"A", ":">>}, MaxLabels)

QueryNodeIds == {NoId} \cup NodeIds
QueryRelIds == {NoId} \cup RelIds

Body(f) == JObj(f)
NoBodySent == JNull

DepthInputs ==
    {JInt(-1), JInt(0), JInt(1), JInt(15), JInt(16), JBool(TRUE), JBool(FALSE),
     JFloat(5), JStr(<<"1">>), JNull}

(* --- the requests of Spec: every way a request can be malformed --------- *)

CreateNodeBodies ==
    {JNull, Body(EmptyDict), Body([properties |-> EmptyDict])}
    \cup {Body([labels |-> JList(l)]) : l \in IdentLists}
    \cup {Body([labels |-> JStr(<<"A", "B">>)])}

CreateRelBodies ==
    {JNull, Body([type |-> JStr(TypeK), from_node |-> 1]),
     Body([from_node |-> 1, to_node |-> 1])}
    \cup {Body([type |-> JStr(t), from_node |-> a, to_node |-> 1]) :
            a \in {NoId, 1}, t \in Idents}

UpdateBodies == {JNull, Body(EmptyDict), Body([properties |-> EmptyDict])}

RelArgs ==
    {EmptyDict, [direction |-> "incoming"], [direction |-> "outgoing"]}
    \cup {[type |-> t] : t \in Idents}

FindPathBodies ==
    {JNull, Body([from_node |-> 1]), Body([from_node |-> 1, to_node |-> 1])}
    \cup {Body([from_node |-> 1, to_node |-> 2, max_depth |-> d]) : d \in DepthInputs}
    \cup {Body([relationship_types |-> JList(l), from_node |-> 1, to_node |-> 2]) :
            l \in IdentLists}

CreateNode ==
    \E data \in CreateNodeBodies :
        Handle("create_node", Input(NoId, data, EmptyDict), FALSE)

GetNode ==
    \E i \in QueryNodeIds :
        Handle("get_node", Input(i, NoBodySent, EmptyDict), FALSE)

UpdateNode ==
    \E i \in QueryNodeIds, data \in UpdateBodies :
        Handle("update_node", Input(i, data, EmptyDict), FALSE)

DeleteNode ==
    \E i \in QueryNodeIds :
        Handle("delete_node", Input(i, NoBodySent, EmptyDict), FALSE)

GetNodesByLabel ==
    \E label \in Idents :
        Handle("get_nodes_by_label", Input(label, NoBodySent, EmptyDict), FALSE)

CreateRelationship ==
    \E data \in CreateRelBodies :
        Handle("create_relationship", Input(NoId, data, EmptyDict), FALSE)

GetRelationship ==
    \E x \in QueryRelIds :
        Handle("get_relationship", Input(x, NoBodySent, EmptyDict), FALSE)

UpdateRelationship ==
    \E x \in QueryRelIds, data \in UpdateBodies :
        Handle("update_relationship", Input(x, data, EmptyDict), FALSE)

DeleteRelationship ==
    \E x \in QueryRelIds :
        Handle("delete_relationship", Input(x, NoBodySent, EmptyDict), FALSE)

GetRelationshipsByType ==
    \E t \in Idents :
        Handle("get_relationships_by_type", Input(t, NoBodySent, EmptyDict), FALSE)

GetNodeRelationships ==
    \E i \in {NoId, 1}, args \in RelArgs :
        Handle("get_node_relationships", Input(i, NoBodySent, args), FALSE)

FindPath ==
    \E data \in FindPathBodies :
        Handle("find_path", Input(NoId, data, EmptyDict), FALSE)

GetStats ==
    Handle("get_stats", Input(NoId, NoBodySent, EmptyDict), FALSE)

Next ==
    \/ CreateNode
    \/ GetNode
    \/ UpdateNode
    \/ DeleteNode
    \/ GetNodesByLabel
    \/ CreateRelationship
    \/ GetRelationship
    \/ UpdateRelationship
    \/ DeleteRelationship
    \/ GetRelationshipsByType
    \/ GetNodeRelationships
    \/ FindPath
    \/ GetStats

Spec == Init /\ [][Next]_vars

-----------------------------------------------------------------------------
(* validate_identifier on its own: every string up to MaxStrLen *)

InitIdent ==
    /\ arg \in Strings
    /\ ret = NoReturn
    /\ nodes = EmptyDict
    /\ rels = EmptyDict
    /\ driver = 0
    /\ constructed = 0
    /\ sessions = {}
    /\ req = NoRequest
    /\ gone = {}
    /\ disk = EmptyDict
    /\ fs = NoFsRequest
    /\ saved = EmptyDict
    /\ threads = NoThreads
    /\ closed_drivers = {}

CallValidateIdentifier ==
    /\ ret.fn = "none"
    /\ ret' = [out |-> validate_identifier(arg, "label"), fn |-> "validate_identifier"]
    /\ UNCHANGED <<arg, nodes, rels, driver, constructed, sessions, req, gone, disk, fs,
                   saved, threads, closed_drivers>>

NextIdent == CallValidateIdentifier

SpecIdent == InitIdent /\ [][NextIdent]_vars

-----------------------------------------------------------------------------
(* Properties of validation and of the connection life cycle *)

SplicedAt(i) == req.sent[i].spliced

(* C1: every label and relationship type in the text of a statement that   *)
(* was sent to the backend was handed to validate_identifier, and accepted *)
(* by it, earlier in the same request.                                     *)
C1_SplicedWereValidated ==
    \A i \in DOMAIN req.sent :
        \A j \in DOMAIN SplicedAt(i) :
            /\ SplicedAt(i)[j] \in req.checked
            /\ validate_identifier(SplicedAt(i)[j], "identifier")[1]

(* a findPath request whose statement carries two relationship types *)
C1_Witness ==
    /\ req.op = "find_path"
    /\ req.sent # <<>>
    /\ Len(SplicedAt(1)) = 2
    /\ req.status \in {200, 404}

(* The identifier grammar as the specification words it *)
IsIdentifier(s) ==
    /\ Len(s) >= 1
    /\ Len(s) <= MaxIdentifierLen
    /\ s[1] \in Letters \cup {"_"}
    /\ \A i \in 1..Len(s) : s[i] \in Letters \cup Digits \cup {"_"}

(* C2: validate_identifier returns (True, None) exactly for the strings of *)
(* the identifier grammar with at most 65535 characters, and (False,       *)
(* message) for every other string.                                        *)
C2_ExactGrammar ==
    ret.fn = "validate_identifier" =>
        IF IsIdentifier(arg)
        THEN ret.out = <<TRUE, None>>
        ELSE ret.out[1] = FALSE /\ ret.out[2] # None

ValidatedOps ==
    {"create_node", "get_nodes_by_label", "create_relationship",
     "get_relationships_by_type", "get_node_relationships", "find_path"}

(* C3: a request that is answered 400 obtained no driver, opened no        *)
(* session and sent no statement, and the graph, the driver count and the  *)
(* open sessions are as they were before it.                               *)
C3_RejectedTouchesNothing ==
    [][(req'.status = 400 /\ req'.op \in ValidatedOps) =>
          /\ ~req'.got_db
          /\ req'.opened = 0
          /\ req'.sent = <<>>
          /\ nodes' = nodes
          /\ rels' = rels
          /\ constructed' = constructed
          /\ sessions' = sessions]_vars

(* a createRelationship with a bad type, rejected while the graph holds a  *)
(* node and a driver has been constructed before                           *)
C3_Witness ==
    /\ req.op = "create_relationship"
    /\ req.status = 400
    /\ req.checked = {}
    /\ DOMAIN nodes # {}
    /\ constructed >= 1

(* C4: the driver is constructed at most once, however many requests are   *)
(* handled.                                                                *)
C4_DriverConstructedOnce == constructed <= 1

(* C5: no session is open once a request has been answered, on every exit  *)
(* path of the session block; every session the request opened it closed.  *)
C5_SessionsClosed ==
    /\ sessions = {}
    /\ req.opened = req.closed

(* the statistics request, left by a Neo4jError with its session open *)
C5_Witness ==
    /\ req.op = "get_stats"
    /\ req.fault = "Neo4jError"
    /\ req.status = 500
    /\ req.opened = 1

IsIntegerInRange(j) == j.kind = "int" /\ j.val >= 1 /\ j.val <= 15

(* C10: findPath answers 400 and sends no statement whenever the body's    *)
(* max_depth is not an integer from 1 to 15.                               *)
C10_BadDepthRejected ==
    (/\ req.op = "find_path"
     /\ req.in.data.kind = "obj"
     /\ Has(req.in.data, "max_depth")
     /\ ~IsIntegerInRange(req.in.data.val["max_depth"]))
    => (req.status = 400 /\ req.sent = <<>>)

-----------------------------------------------------------------------------
(* Nodes with labels and properties: create, fetch, delete *)

LabelLists ==
    {<<LabelA>>, <<LabelA, LabelB>>, <<LabelB, LabelA>>, <<LabelA, LabelA>>,
     <<<<"A", LF>>>>}

CreateProperties ==
    {EmptyDict, [name |-> "30"], [name |-> "30", age |-> "31"],
     [name |-> "30", age |-> Null], [name |-> Nested]}

LabelledBodies ==
    {Body([properties |-> EmptyDict]), Body([labels |-> JList(<<<<"A", ":">>>>)])}
    \cup {Body([labels |-> JList(l)]) : l \in LabelLists}
    \cup {Body([labels |-> JList(l), properties |-> P]) :
            l \in LabelLists, P \in CreateProperties}

CreateLabelledNode ==
    \E data \in LabelledBodies :
        Handle("create_node", Input(NoId, data, EmptyDict), FALSE)

GetLabelledNode ==
    \E i \in QueryNodeIds :
        Handle("get_node", Input(i, NoBodySent, EmptyDict), FALSE)

DeleteLabelledNode ==
    \E i \in QueryNodeIds :
        Handle("delete_node", Input(i, NoBodySent, EmptyDict), FALSE)

NextCreate ==
    \/ CreateLabelledNode
    \/ GetLabelledNode
    \/ DeleteLabelledNode

SpecCreate == Init /\ [][NextCreate]_vars

-----------------------------------------------------------------------------
(* One node and one relationship with stored properties: updates *)

StoredProperties == {EmptyDict, [name |-> "30"], [name |-> "30", age |-> "30"]}

UpdateProperties ==
    {EmptyDict, [age |-> "31"], [name |-> "31"], [name |-> Null],
     [name |-> "31", age |-> Null], [name |-> Nested]}

PropertyBodies ==
    {JNull, Body(EmptyDict)} \cup {Body([properties |-> P]) : P \in UpdateProperties}

InitMerge ==
    /\ arg = <<>>
    /\ ret = NoReturn
    /\ \E p \in StoredProperties :
          nodes = [i \in {1} |-> [labels |-> {LabelA}, props |-> p]]
    /\ \E q \in StoredProperties :
          rels = [x \in {1} |-> [start |-> 1, end |-> 1, type |-> TypeK, props |-> q]]
    /\ driver = 0
    /\ constructed = 0
    /\ sessions = {}
    /\ req = NoRequest
    /\ gone = {}
    /\ disk = EmptyDict
    /\ fs = NoFsRequest
    /\ saved = EmptyDict
    /\ threads = NoThreads
    /\ closed_drivers = {}

UpdateNodeProperties ==
    \E i \in QueryNodeIds, data \in PropertyBodies :
        Handle("update_node", Input(i, data, EmptyDict), FALSE)

UpdateRelationshipProperties ==
    \E x \in QueryRelIds, data \in PropertyBodies :
        Handle("update_relationship", Input(x, data, EmptyDict), FALSE)

NextMerge ==
    \/ UpdateNodeProperties
    \/ UpdateRelationshipProperties

SpecMerge == InitMerge /\ [][NextMerge]_vars

-----------------------------------------------------------------------------
(* Nodes and relationships without properties: creation and deletion, with *)
(* the history of deleted node ids                                         *)

PlainNodeBody == Body([labels |-> JList(<<LabelA>>)])

PlainUpdateBody == Body([properties |-> EmptyDict])

PlainRelBodies ==
    {Body([from_node |-> 1, to_node |-> 1]),
     Body([type |-> JStr(<<"k", ":">>), from_node |-> 1, to_node |-> 1])}
    \cup {Body([type |-> JStr(TypeK), from_node |-> a, to_node |-> b]) :
            a \in QueryNodeIds, b \in {NoId, 1}}

CreatePlainNode ==
    Handle("create_node", Input(NoId, PlainNodeBody, EmptyDict), TRUE)

GetPlainNode ==
    \E i \in QueryNodeIds :
        Handle("get_node", Input(i, NoBodySent, EmptyDict), TRUE)

UpdatePlainNode ==
    \E i \in QueryNodeIds :
        Handle("update_node", Input(i, PlainUpdateBody, EmptyDict), TRUE)

DeletePlainNode ==
    \E i \in QueryNodeIds :
        Handle("delete_node", Input(i, NoBodySent, EmptyDict), TRUE)

CreatePlainRelationship ==
    \E data \in PlainRelBodies :
        Handle("create_relationship", Input(NoId, data, EmptyDict), TRUE)

DeletePlainRelationship ==
    \E x \in QueryRelIds :
        Handle("delete_relationship", Input(x, NoBodySent, EmptyDict), TRUE)

NextTopology ==
    \/ CreatePlainNode
    \/ GetPlainNode
    \/ UpdatePlainNode
    \/ DeletePlainNode
    \/ CreatePlainRelationship
    \/ DeletePlainRelationship

SpecTopology == Init /\ [][NextTopology]_vars

-----------------------------------------------------------------------------
(* Properties of the graph operations *)

(* The responses an operation can give in graph (n, r), the backend up *)
Answers(op, in, n, r) ==
    LET plan == Plan(op, in)
    IN  IF plan.status = 400 THEN {Response(400, plan.error, NoBody)}
        ELSE {Respond(op, in, out) : out \in Attempt(plan.stmts, "none", n, r)}

RequestedLabels == req.in.data.val["labels"].val
RequestedProperties == Get(req.in.data, "properties", EmptyDict)

WithoutNulls(P) == [k \in {j \in DOMAIN P : P[j] # Null} |-> P[k]]

(* a createNode with a list of grammar-exact labels, the backend up *)
ValidCreate ==
    /\ req.op = "create_node"
    /\ req.fault = "none"
    /\ req.in.data.kind = "obj"
    /\ Has(req.in.data, "labels")
    /\ req.in.data.val["labels"].kind = "list"
    /\ RequestedLabels # <<>>
    /\ \A l \in Range(RequestedLabels) : IsIdentifier(l)

(* the record createNode returned and the records getNode gives for its id *)
RoundTrip(labels, properties) ==
    /\ req.status = 201
    /\ req.body.labels = labels
    /\ req.body.properties = properties
    /\ \A a \in Answers("get_node", Input(req.body.id, NoBodySent, EmptyDict),
                        nodes, rels) :
          /\ a.status = 200
          /\ a.body.id = req.body.id
          /\ a.body.labels = labels
          /\ a.body.properties = properties

Overridden(old, P) ==
    [k \in DOMAIN old \cup DOMAIN P |-> IF k \in DOMAIN P THEN P[k] ELSE old[k]]

(* ... where an entry of P that is null removes the key *)
OverriddenOrUnset(old, P) ==
    [k \in (DOMAIN old \ DOMAIN P) \cup {j \in DOMAIN P : P[j] # Null} |->
        IF k \in DOMAIN P THEN P[k] ELSE old[k]]

(* a successful update of entity id in store (before, after) gives merged *)
Updated(before, after, id, merged) ==
    /\ id \in DOMAIN before
    /\ id \in DOMAIN after
    /\ after[id].props = merged
    /\ req'.body.properties = merged
    /\ \A k \in DOMAIN before[id].props \ DOMAIN req'.in.data.val["properties"] :
          k \in DOMAIN after[id].props /\ after[id].props[k] = before[id].props[k]

(* C7 as stated: after a successful updateNode / updateRelationship with P *)
(* the stored and the returned properties are the previous ones overridden *)
(* by P, and keys not in P keep their values.                              *)
C7_MergeAsStated ==
    [][/\ (req'.op = "update_node" /\ req'.status = 200) =>
            Updated(nodes, nodes', req'.in.path,
                    Overridden(nodes[req'.in.path].props,
                               req'.in.data.val["properties"]))
       /\ (req'.op = "update_relationship" /\ req'.status = 200) =>
            Updated(rels, rels', req'.in.path,
                    Overridden(rels[req'.in.path].props,
                               req'.in.data.val["properties"]))]_vars

(* C7: after a successful updateNode / updateRelationship with P the       *)
(* stored and the returned properties are the previous ones overridden by  *)
(* the non-null entries of P and without the keys P maps to null; keys not *)
(* in P keep their values.                                                 *)
C7_Merge ==
    [][/\ (req'.op = "update_node" /\ req'.status = 200) =>
            Updated(nodes, nodes', req'.in.path,
                    OverriddenOrUnset(nodes[req'.in.path].props,
                                      req'.in.data.val["properties"]))
       /\ (req'.op = "update_relationship" /\ req'.status = 200) =>
            Updated(rels, rels', req'.in.path,
                    OverriddenOrUnset(rels[req'.in.path].props,
                                      req'.in.data.val["properties"]))]_vars

(* an update that set one key, left the other and was answered 200 *)
C7_Witness ==
    /\ req.op = "update_relationship"
    /\ req.status = 200
    /\ req.in.data.val["properties"] = [age |-> "31"]
    /\ req.body.properties = [name |-> "30", age |-> "31"]

NodeOps == {"delete_node", "get_node", "update_node"}

Remaining(n, id) == [j \in DOMAIN n \ {id} |-> n[j]]

Detached(r, id) == [x \in {y \in DOMAIN r : ~Incident(r[y], id)} |-> r[x]]

(* deleteNode of a live node: 200, the node and its relationships removed *)
DeleteRemoves ==
    (/\ req'.op = "delete_node"
     /\ req'.fault = "none"
     /\ req'.in.path \in DOMAIN nodes)
    => /\ req'.status = 200
       /\ nodes' = Remaining(nodes, req'.in.path)
       /\ rels' = Detached(rels, req'.in.path)

(* a request on one of the ids: 404 and nothing changed *)
NotFoundFor(ids) ==
    (/\ req'.op \in NodeOps
     /\ req'.fault = "none"
     /\ req'.in.path \in ids)
    => /\ req'.status = 404
       /\ nodes' = nodes
       /\ rels' = rels

(* C8 as stated: deleteNode of an existing node answers 200 and removes it *)
(* with its relationships; every later deleteNode, getNode and updateNode  *)
(* with that id answers 404 and changes nothing.                           *)
C8_DeletedStaysGoneAsStated ==
    [][DeleteRemoves /\ NotFoundFor(gone)]_vars

(* C8: deleteNode of an existing node answers 200 and removes it with its  *)
(* relationships; a later deleteNode, getNode or updateNode with that id   *)
(* answers 404 and changes nothing as long as the backend has not given    *)
(* the id to a node created since.                                         *)
C8_DeletedStaysGone ==
    [][DeleteRemoves /\ NotFoundFor(gone \ DOMAIN nodes)]_vars

(* the second deleteNode of an id, answered 404 *)
C8_Witness ==
    /\ req.op = "delete_node"
    /\ req.status = 404
    /\ req.in.path \in gone
    /\ DOMAIN nodes # {}

(* C9: createRelationship with a valid type and an endpoint that matches   *)
(* no node answers 404, and the nodes and relationships are as before.     *)
C9_MissingEndpoint ==
    [][(/\ req'.op = "create_relationship"
        /\ req'.fault = "none"
        /\ req'.in.data.kind = "obj"
        /\ {"from_node", "to_node", "type"} \subseteq DOMAIN req'.in.data.val
        /\ IsIdentifier(req'.in.data.val["type"].val)
        /\ \/ req'.in.data.val["from_node"] \notin DOMAIN nodes
           \/ req'.in.data.val["to_node"] \notin DOMAIN nodes)
       => /\ req'.status = 404
          /\ nodes' = nodes
          /\ rels' = rels]_vars

(* the target exists, the source does not *)
C9_Witness ==
    /\ req.op = "create_relationship"
    /\ req.status = 404
    /\ req.in.data.val["to_node"] \in DOMAIN nodes
    /\ req.in.data.val["from_node"] \notin DOMAIN nodes

-----------------------------------------------------------------------------
(* Path queries over a stored graph (POST /query/path) *)

PathNodeIds == 1..(MaxNodes + 1)
PathRelIds == 1..(MaxRels + 1)

(* the relationships create_relationship can have stored between ids *)
StoredEdges(ids) ==
    [type : {LabelA, TypeK}, start : ids, end : ids, props : {EmptyDict}]

StoredGraph(ids, xs) ==
    /\ nodes = [i \in ids |-> [labels |-> {}, props |-> EmptyDict]]
    /\ \E m \in {0} \cup xs : \E e \in [1..m -> StoredEdges(ids)] : rels = e
    /\ arg = <<>>
    /\ ret = NoReturn
    /\ driver = 0
    /\ constructed = 0
    /\ sessions = {}
    /\ req = NoRequest
    /\ gone = {}
    /\ disk = EmptyDict
    /\ fs = NoFsRequest
    /\ saved = EmptyDict
    /\ threads = NoThreads
    /\ closed_drivers = {}

InitPath == StoredGraph(PathNodeIds, PathRelIds)

PathBodies ==
    {JNull,
     Body([relationship_types |-> JList(<<<<"A", ":">>>>), from_node |-> 1,
           to_node |-> 2])}
    \cup {Body([from_node |-> 1, to_node |-> b]) : b \in {1, 2}}
    \cup {Body([from_node |-> 1, to_node |-> b, max_depth |-> JInt(d)]) :
            b \in {NoId} \cup PathNodeIds, d \in {1, 2}}
    \cup {Body([relationship_types |-> JList(<<TypeK>>), from_node |-> 1, to_node |-> b,
                max_depth |-> JInt(d)]) :
            b \in PathNodeIds, d \in {1, 2}}

FindStoredPath ==
    \E data \in PathBodies :
        Handle("find_path", Input(NoId, data, EmptyDict), FALSE)

NextPath == FindStoredPath

SpecPath == InitPath /\ [][NextPath]_vars

(* a findPath request with both endpoints, a depth from 1 to 15 (or none)  *)
(* and a list of grammar-exact types (or none), the backend up             *)
ValidFindPath ==
    /\ req.op = "find_path"
    /\ req.fault = "none"
    /\ req.in.data.kind = "obj"
    /\ {"from_node", "to_node"} \subseteq DOMAIN req.in.data.val
    /\ Has(req.in.data, "max_depth") => IsIntegerInRange(req.in.data.val["max_depth"])
    /\ Has(req.in.data, "relationship_types") =>
          /\ req.in.data.val["relationship_types"].kind = "list"
          /\ \A t \in Range(req.in.data.val["relationship_types"].val) : IsIdentifier(t)

RequestedDepth == Get(req.in.data, "max_depth", JInt(DefaultMaxDepth)).val
RequestedTypes == Range(Get(req.in.data, "relationship_types", JList(<<>>)).val)

(* the undirected walks the request asks about, in the stored graph *)
RequestedPaths ==
    IF {req.in.data.val["from_node"], req.in.data.val["to_node"]} \subseteq DOMAIN nodes
    THEN PathsBetween(rels, req.in.data.val["from_node"], req.in.data.val["to_node"],
                      RequestedTypes, RequestedDepth)
    ELSE {}

ReturnedPath == [i \in DOMAIN req.body.path.relationships |->
                    req.body.path.relationships[i].id]

(* C11: for valid input findPath answers 200 with a path between the two   *)
(* endpoints that ignores direction, uses only the given types, has length *)
(* equal to its number of relationships, between 1 and max_depth, and is   *)
(* minimal; it answers 404 exactly when no such path exists.               *)
C11_ShortestPath ==
    ValidFindPath =>
        IF RequestedPaths = {} THEN req.status = 404
        ELSE /\ req.status = 200
             /\ ReturnedPath \in RequestedPaths
             /\ req.body.path.length = Len(ReturnedPath)
             /\ req.body.path.length >= 1
             /\ req.body.path.length <= RequestedDepth
             /\ \A q \in RequestedPaths : req.body.path.length <= Len(q)
             /\ req.body.path.nodes[1].id = req.in.data.val["from_node"]
             /\ req.body.path.nodes[Len(req.body.path.nodes)].id =
                    req.in.data.val["to_node"]

(* The same with distinct endpoints *)
C11_ShortestPathDistinct ==
    (ValidFindPath /\ req.in.data.val["from_node"] # req.in.data.val["to_node"])
    => C11_ShortestPath

-----------------------------------------------------------------------------
(* Relationships of a node in a stored graph (GET /nodes/<id>/relationships) *)

InitNodeRels == StoredGraph(NodeIds, PathRelIds)

Directions == {"incoming", "outgoing", "all"}

NodeRelArgs ==
    {[type |-> t] : t \in {<<>>, <<"A", ":">>}}
    \cup {[direction |-> d] : d \in Directions}
    \cup {[type |-> t, direction |-> d] : d \in Directions, t \in {LabelA, <<"A", LF>>}}

GetStoredNodeRelationships ==
    \E i \in {NoId, 1}, args \in NodeRelArgs :
        Handle("get_node_relationships", Input(i, NoBodySent, args), FALSE)

NextNodeRels == GetStoredNodeRelationships

SpecNodeRels == InitNodeRels /\ [][NextNodeRels]_vars

RequestedDirection ==
    IF "direction" \in DOMAIN req.in.args THEN req.in.args["direction"] ELSE "all"

TypeSupplied == "type" \in DOMAIN req.in.args /\ req.in.args["type"] # <<>>

(* the stored relationships the request names *)
RequestedRelationships ==
    {x \in DOMAIN rels :
        /\ CASE RequestedDirection = "outgoing" -> rels[x].start = req.in.path
             [] RequestedDirection = "incoming" -> rels[x].end = req.in.path
             [] OTHER -> rels[x].start = req.in.path \/ rels[x].end = req.in.path
        /\ TypeSupplied => rels[x].type = req.in.args["type"]}

ReturnsRequestedRelationships ==
    /\ req.status = 200
    /\ req.body.relationships =
          {relationship_to_dict(rels, x) : x \in RequestedRelationships}
    /\ req.body.count = Cardinality(RequestedRelationships)

(* C12: getNodeRelationships returns exactly the relationships that start  *)
(* at the node (outgoing), end at it (incoming) or touch it (all), only    *)
(* those of the given type when a type is supplied, and count is their     *)
(* number.                                                                 *)
C12_NodeRelationships ==
    (/\ req.op = "get_node_relationships"
     /\ req.fault = "none"
     /\ req.status # 400)
    => ReturnsRequestedRelationships

(* The same where the supplied type is a grammar-exact identifier *)
C12_NodeRelationshipsOfIdentifier ==
    (/\ req.op = "get_node_relationships"
     /\ req.fault = "none"
     /\ TypeSupplied => IsIdentifier(req.in.args["type"]))
    => ReturnsRequestedRelationships

-----------------------------------------------------------------------------
(* Caller-supplied statements over a stored graph (POST /query/cypher) *)

InitCypher ==
    /\ \E ls \in [PathNodeIds -> {{LabelA}, {LabelB}}] :
          nodes = [i \in PathNodeIds |-> [labels |-> ls[i], props |-> EmptyDict]]
    /\ \E m \in {0} \cup RelIds :
          \E e \in [1..m -> [type : {TypeK}, start : {1}, end : PathNodeIds,
                             props : {EmptyDict}]] : rels = e
    /\ arg = <<>>
    /\ ret = NoReturn
    /\ driver = 0
    /\ constructed = 0
    /\ sessions = {}
    /\ req = NoRequest
    /\ gone = {}
    /\ disk = EmptyDict
    /\ fs = NoFsRequest
    /\ saved = EmptyDict
    /\ threads = NoThreads
    /\ closed_drivers = {}

CypherParameters ==
    {JNull,
     JObj([p |-> JInt(1)]),
     JObj([p |-> JStr(LabelA)]),
     JObj([p |-> JList(<<JInt(1)>>)]),
     JObj([query |-> JInt(1)]),
     JObj([parameters |-> JInt(1)]),
     JObj([p |-> JInt(1), parameters |-> JObj([p |-> JInt(2)])])}

CypherBodies ==
    {JNull, Body([parameters |-> JObj(EmptyDict)])}
    \cup {Body([query |-> cypher[k]]) : k \in DOMAIN cypher}
    \cup {Body([query |-> t, parameters |-> P]) :
            t \in {cypher.echo_p, cypher.echo_query, cypher.echo_parameters},
            P \in CypherParameters}

ExecuteCypher ==
    \E data \in CypherBodies :
        Handle("execute_cypher", Input(NoId, data, EmptyDict), FALSE)

NextCypher == ExecuteCypher

SpecCypher == InitCypher /\ [][NextCypher]_vars

(* the result sets the backend can give to the request's statement *)
BackendRows ==
    {res.rows : res \in
        {x \in RunCypher(nodes, rels, Stmt(req.in.data.val["query"], <<>>, 0,
                                           JObj(EmptyDict))) : x.err = NoError}}

(* the record the claim gives for a value of a row *)
RecordOf(value) ==
    CASE value.kind = "Node" ->
            [labels |-> nodes[value.val].labels, properties |-> nodes[value.val].props,
             id |-> value.val]
      [] value.kind = "Relationship" ->
            [type |-> rels[value.val].type, properties |-> rels[value.val].props,
             id |-> value.val,
             start_node_id |-> rels[value.val].start,
             end_node_id |-> rels[value.val].end]
      [] OTHER -> value

MappedByShape(rows) ==
    /\ req.status = 200
    /\ req.body.count = Len(rows)
    /\ DOMAIN req.body.results = DOMAIN rows
    /\ \A i \in DOMAIN rows :
          /\ DOMAIN req.body.results[i] = DOMAIN rows[i]
          /\ \A key \in DOMAIN rows[i] :
                req.body.results[i][key] = RecordOf(rows[i][key])

(* a statement without parameters that the backend answers with rows *)
CypherAnswered ==
    /\ req.op = "execute_cypher"
    /\ req.fault = "none"
    /\ req.in.data.kind = "obj"
    /\ DOMAIN req.in.data.val = {"query"}
    /\ BackendRows # {}

(* C13: execute_cypher maps every value of every row by shape (a node to a *)
(* Node record, a relationship to a Relationship record, any other value   *)
(* unchanged), with one results entry per row in row order and count the   *)
(* number of rows.                                                         *)
C13_RowsMappedByShape ==
    CypherAnswered => \E rows \in BackendRows : MappedByShape(rows)

(* The same for rows that hold nodes, relationships and plain values only *)
C13_PlainRowsMappedByShape ==
    (/\ CypherAnswered
     /\ \A rows \in BackendRows : \A i \in DOMAIN rows : \A key \in DOMAIN rows[i] :
           \/ rows[i][key].kind \in {"Node", "Relationship"}
           \/ rows[i][key].kind \in {"int", "str", "bool", "null", "float"})
    => \E rows \in BackendRows : MappedByShape(rows)

(* a statement that returns its parameter $name, sent with a parameters    *)
(* mapping that holds name                                                 *)
EchoRequest ==
    /\ req.op = "execute_cypher"
    /\ req.fault = "none"
    /\ req.in.data.kind = "obj"
    /\ {"query", "parameters"} \subseteq DOMAIN req.in.data.val
    /\ req.in.data.val["query"] \in
          {cypher.echo_p, cypher.echo_query, cypher.echo_parameters}
    /\ req.in.data.val["parameters"].kind = "obj"
    /\ EchoName(req.in.data.val["query"]) \in DOMAIN req.in.data.val["parameters"].val

EchoedAsGiven ==
    /\ req.sent[1].text = req.in.data.val["query"]
    /\ req.status = 200
    /\ req.body.results =
          <<[v |-> req.in.data.val["parameters"].val[EchoName(req.in.data.val["query"])]]>>

(* C14: execute_cypher runs the caller's statement text unmodified and     *)
(* binds every key of the caller's parameters mapping, whatever its name,  *)
(* as a query parameter with its given value.                              *)
C14_ParametersBound == EchoRequest => EchoedAsGiven

(* The same for mappings without the keys query and parameters *)
C14_OtherParametersBound ==
    (/\ EchoRequest
     /\ DOMAIN req.in.data.val["parameters"].val \cap {"query", "parameters"} = {})
    => EchoedAsGiven

-----------------------------------------------------------------------------
(* Failures inside an operation *)

(* C15: in every operation a backend error is answered 500 with            *)
(* 'Database error: <backend message>', and any other exception raised     *)
(* inside the operation is answered 500 with the generic message           *)
(* 'Internal server error' only, without any text of the exception.        *)
C15_ErrorsMapped ==
    /\ (req.op \in Ops /\ req.fault = "Neo4jError")
       => /\ req.status = 500
          /\ req.error = <<"Database error: ">> \o BackendDown
          /\ req.body = NoBody
    /\ (req.op \in Ops /\ req.fault = "Exception")
       => /\ req.status = 500
          /\ req.error = <<"Internal server error">>
          /\ req.body = NoBody

(* The same for every operation but createRelationship *)
C15_ErrorsMappedElsewhere ==
    (req.op # "create_relationship") => C15_ErrorsMapped

-----------------------------------------------------------------------------
(* Request bodies of any JSON type *)

(* a JSON list whose elements are JSON values of any type *)
JMixed(l) == [kind |-> "mixed", val |-> l]

(* for value in values with validate_identifier(value, name): `not value`  *)
(* returns for a falsy element; IDENTIFIER_PATTERN.match(value) raises     *)
(* TypeError for a truthy element that is no string                        *)
MatchRaises(values, name) ==
    \E i \in DOMAIN values :
        /\ values[i].kind # "str"
        /\ Truthy(values[i])
        /\ \A k \in 1..(i - 1) :
              values[k].kind = "str" /\ validate_identifier(values[k].val, name)[1]

(* a list of identifiers as the handler receives it *)
IterRaises(j, name) ==
    CASE j.kind \in {"int", "float", "bool"} -> Truthy(j)
      [] j.kind = "mixed" -> MatchRaises(j.val, name)
      [] OTHER -> FALSE

(* The exception the code before the try block raises on a body, if any:   *)
(* data.get on a body that is no object, the validator on a value that is  *)
(* no string.                                                              *)
RaisedBeforeTry(op, data) ==
    IF data.kind \notin {"null", "obj"}
    THEN IF Truthy(data) THEN "AttributeError" ELSE "none"
    ELSE IF ~Truthy(data) THEN "none"
    ELSE CASE op = "create_node" ->
                 IF Has(data, "labels") /\ IterRaises(data.val["labels"], "label")
                 THEN "TypeError" ELSE "none"
           [] op = "create_relationship" ->
                 IF /\ {"from_node", "to_node", "type"} \subseteq DOMAIN data.val
                    /\ data.val["type"].kind # "str"
                    /\ Truthy(data.val["type"])
                 THEN "TypeError" ELSE "none"
           [] op = "find_path" ->
                 IF /\ {"from_node", "to_node"} \subseteq DOMAIN data.val
                    /\ ~BadDepth(Get(data, "max_depth", JInt(DefaultMaxDepth)))
                    /\ Has(data, "relationship_types")
                    /\ IterRaises(data.val["relationship_types"], "relationship type")
                 THEN "TypeError" ELSE "none"
           [] OTHER -> "none"

(* A request whose handler raises before its try block: the exception      *)
(* leaves the view function and the framework answers with its own 500     *)
(* page; the application context is torn down as for every request.        *)
Escaped(op, in) ==
    /\ RaisedBeforeTry(op, in.data) # "none"
    /\ req' = [NoRequest EXCEPT !.op = op, !.in = in, !.status = 500,
                               !.body = [exception |-> RaisedBeforeTry(op, in.data)]]
    /\ driver' = teardown_db(driver)
    /\ UNCHANGED <<arg, ret, nodes, rels, constructed, sessions, gone, disk, fs, saved,
                   threads, closed_drivers>>

HandleBody(op, in) ==
    IF RaisedBeforeTry(op, in.data) # "none"
    THEN Escaped(op, in)
    ELSE Handle(op, in, FALSE)

OddBodies == {JList(<<LabelA>>), JStr(LabelA), JInt(1), JBool(TRUE), JInt(0), JList(<<>>)}

OddLists ==
    {JInt(1), JMixed(<<JInt(1)>>), JMixed(<<JStr(LabelA), JBool(TRUE)>>)}

PostNode ==
    \E data \in CreateNodeBodies \cup OddBodies
                \cup {Body([labels |-> l]) : l \in OddLists} :
        HandleBody("create_node", Input(NoId, data, EmptyDict))

PostRelationship ==
    \E data \in CreateRelBodies \cup OddBodies
                \cup {Body([type |-> t, from_node |-> 1, to_node |-> 1]) :
                        t \in {JInt(1), JBool(TRUE), JList(<<LabelA>>), JInt(0)}} :
        HandleBody("create_relationship", Input(NoId, data, EmptyDict))

PostPath ==
    \E data \in {JNull, Body([from_node |-> 1, to_node |-> 2])} \cup OddBodies
                \cup {Body([relationship_types |-> l, from_node |-> 1, to_node |-> 2]) :
                        l \in OddLists} :
        HandleBody("find_path", Input(NoId, data, EmptyDict))

NextBodies == PostNode \/ PostRelationship \/ PostPath

SpecBodies == Init /\ [][NextBodies]_vars

(* C16: every failing request, whatever the JSON type of its body and of   *)
(* the body's fields, ends in a response with an error field and a 4xx or  *)
(* 5xx status; no exception leaves the handler.                            *)
C16_FailuresAreStructured ==
    (req.op \in Ops /\ req.status \notin {200, 201})
    => /\ req.status \in 400..599
       /\ req.error # NoError
       /\ "exception" \notin DOMAIN req.body

(* The same for bodies that are objects with string identifiers *)
C16_PlainFailuresAreStructured ==
    (RaisedBeforeTry(req.op, req.in.data) = "none") => C16_FailuresAreStructured

-----------------------------------------------------------------------------
(* The file share service (services/fileshare): persons, files kept under   *)
(* UPLOAD_DIR, and their nodes and relationships in the graph.  Its calls   *)
(* to the database service act on nodes and rels.                           *)

PersonLabel == <<"P", "e", "r", "s", "o", "n">>
FileLabel == <<"F", "i", "l", "e">>
UPLOADED == <<"U", "P", "L", "O", "A", "D", "E", "D">>
DOWNLOADED == <<"D", "O", "W", "N", "L", "O", "A", "D", "E", "D">>
EDITED == <<"E", "D", "I", "T", "E", "D">>
UPLOADED_WITH == <<"U", "P", "L", "O", "A", "D", "E", "D", "_", "W", "I", "T", "H">>

(* datetime.now(timezone.utc).isoformat() *)
Now == "now"

(* Path(filename).name: the last component of the path, trailing slashes  *)
(* dropped                                                                 *)
StripSlashes(s) ==
    LET kept == {i \in DOMAIN s : s[i] # "/"}
    IN  IF kept = {} THEN <<>>
        ELSE SubSeq(s, 1, CHOOSE i \in kept : \A j \in kept : j <= i)

AfterLastSlash(s) ==
    LET slashes == {i \in DOMAIN s : s[i] = "/"}
    IN  IF slashes = {} THEN s
        ELSE SubSeq(s, (CHOOSE i \in slashes : \A j \in slashes : j <= i) + 1, Len(s))

PathName(s) ==
    LET name == AfterLastSlash(StripSlashes(s))
    IN  IF name = <<".">> THEN <<>> ELSE name

(* filename.strip() == "" *)
IsBlank(s) == \A i \in DOMAIN s : s[i] \in {" ", "\t", "\n"}

Sanitized(name, error) == [name |-> name, error |-> error]

MaxFilenameLen == 255

(* sanitize_filename without the comparison with Path(filename).name *)
sanitize_filename_unchecked(filename) ==
    IF filename = <<>> \/ IsBlank(filename)
    THEN Sanitized(None, <<"Filename cannot be empty">>)
    ELSE IF filename[1] = "."
    THEN Sanitized(None, <<"Hidden files are not allowed">>)
    ELSE IF Len(filename) > MaxFilenameLen
    THEN Sanitized(None, <<"Filename is too long (max 255 characters)">>)
    ELSE Sanitized(filename, NoError)

(* sanitize_filename(filename): (safe_filename, None) or (None, error) *)
sanitize_filename(filename) ==
    IF filename = <<>> \/ IsBlank(filename)
    THEN Sanitized(None, <<"Filename cannot be empty">>)
    ELSE IF PathName(filename) # filename
    THEN Sanitized(None, <<"Filename contains invalid path components">>)
    ELSE IF filename[1] = "."
    THEN Sanitized(None, <<"Hidden files are not allowed">>)
    ELSE IF Len(filename) > MaxFilenameLen
    THEN Sanitized(None, <<"Filename is too long (max 255 characters)">>)
    ELSE Sanitized(filename, NoError)

(* content_type.split(';')[0].strip().lower() of the types clients send *)
BaseType(content_type) ==
    CASE content_type = "TEXT/PLAIN; charset=utf-8" -> "text/plain"
      [] OTHER -> content_type

ALLOWED_CONTENT_TYPES == {"text/plain", "application/json", "image/png"}

(* validate_content_type(content_type): no type is accepted *)
validate_content_type(content_type) ==
    IF content_type = "" THEN NoError
    ELSE IF BaseType(content_type) \notin ALLOWED_CONTENT_TYPES
    THEN <<"File type is not allowed">>
    ELSE NoError

(* validate_file_upload(file): a part without filename is no file *)
validate_file_upload(file) ==
    IF file.filename = <<>> THEN <<"No file selected">>
    ELSE sanitize_filename(file.filename).error

(* the checks every uploaded part goes through, in the handlers' order *)
file_checks(file, filename) ==
    IF validate_file_upload(file) # NoError THEN validate_file_upload(file)
    ELSE IF sanitize_filename(filename).error # NoError
    THEN sanitize_filename(filename).error
    ELSE validate_content_type(file.content_type)

(* call_database("POST", "nodes", ...): the node gets a new element id *)
NewId(f) == Cardinality(DOMAIN f) + 1

post_nodes(n, label, properties) ==
    [j \in DOMAIN n \cup {NewId(n)} |->
        IF j = NewId(n) THEN [labels |-> {label}, props |-> properties] ELSE n[j]]

(* call_database("PUT", "nodes/<id>", ...): SET n += $properties *)
put_nodes(n, i, properties) ==
    [n EXCEPT ![i].props =
        [k \in DOMAIN @ \cup DOMAIN properties |->
            IF k \in DOMAIN properties THEN properties[k] ELSE @[k]]]

(* create_relationship(from_node_id, to_node_id, rel_type) of files.py *)
create_relationship(r, from_node_id, to_node_id, rel_type) ==
    [x \in DOMAIN r \cup {NewId(r)} |->
        IF x = NewId(r)
        THEN [start |-> from_node_id, end |-> to_node_id, type |-> rel_type,
              props |-> [timestamp |-> Now]]
        ELSE r[x]]

(* UPLOADED_WITH: call_database("POST", "relationships", ...) without timestamp *)
post_relationships(r, from_node, to_node, rel_type) ==
    [x \in DOMAIN r \cup {NewId(r)} |->
        IF x = NewId(r)
        THEN [start |-> from_node, end |-> to_node, type |-> rel_type,
              props |-> EmptyDict]
        ELSE r[x]]

(* The escape sequences of a Cypher string literal the names can hold *)
Escapes == [k \in {"\\", "'", "t"} |-> IF k = "t" THEN "\t" ELSE k]

(* '{name}' inside the f-string of a query: the string the literal denotes *)
(* to the database.  A quote that is not escaped ends the literal and      *)
(* leaves text that is no Cypher, as does an unknown or unfinished escape. *)
RECURSIVE cypher_literal(_)
cypher_literal(s) ==
    IF s = <<>> THEN [value |-> <<>>, ok |-> TRUE]
    ELSE IF s[1] = "'" THEN [value |-> <<>>, ok |-> FALSE]
    ELSE IF s[1] = "\\"
    THEN IF Len(s) < 2 \/ s[2] \notin DOMAIN Escapes
         THEN [value |-> <<>>, ok |-> FALSE]
         ELSE LET rest == cypher_literal(SubSeq(s, 3, Len(s)))
              IN  [value |-> <<Escapes[s[2]]>> \o rest.value, ok |-> rest.ok]
    ELSE LET rest == cypher_literal(Tail(s))
         IN  [value |-> <<s[1]>> \o rest.value, ok |-> rest.ok]

(* call_database raises RuntimeError when the database answers 500 *)
LookupRaises(names) == \E k \in DOMAIN names : ~cypher_literal(names[k]).ok

(* MATCH (p:Person {name: '<name>'}) RETURN p LIMIT 1: the candidates *)
get_person_by_name(n, name) ==
    {i \in DOMAIN n :
        PersonLabel \in n[i].labels /\ n[i].props.name = cypher_literal(name).value}

(* MATCH (p:Person {name: ..})-[:UPLOADED]->(f:File {filename: ..})         *)
(* RETURN f LIMIT 1: the candidates                                         *)
get_file_by_person_and_filename(n, r, person_name, filename) ==
    {f \in DOMAIN n :
        /\ FileLabel \in n[f].labels
        /\ n[f].props.filename = cypher_literal(filename).value
        /\ \E x \in DOMAIN r :
              /\ r[x].type = UPLOADED
              /\ r[x].end = f
              /\ r[x].start \in get_person_by_name(n, person_name)}

file_exists_for_person(n, r, person_name, filename) ==
    get_file_by_person_and_filename(n, r, person_name, filename) # {}

(* file.save(UPLOAD_DIR / safe_filename): one directory for all persons *)
save(d, safe_filename, content) ==
    [k \in DOMAIN d \cup {safe_filename} |->
        IF k = safe_filename THEN content ELSE d[k]]

(* file_path = UPLOAD_DIR / safe_filename *)
file_path(safe_filename) == safe_filename

(* file_path.unlink() *)
unlink(d, path) == [k \in DOMAIN d \ {path} |-> d[k]]

(* file.content_type or "application/octet-stream" *)
content_type_or_default(file) ==
    IF file.content_type = "" THEN "application/octet-stream" ELSE file.content_type

(* the properties of a new File node *)
file_data(safe_filename, file, size) ==
    [filename |-> safe_filename,
     content_type |-> content_type_or_default(file),
     size |-> size,
     created_at |-> Now,
     updated_at |-> Now,
     deleted |-> FALSE]

(* The response of a file share handler and the state it leaves *)
Answer(op, person, filename, files, status, error, body, n, r, d, s) ==
    /\ fs' = [status |-> status, error |-> error, body |-> body, op |-> op,
              person |-> person, filename |-> filename, files |-> files,
              email |-> Absent]
    /\ nodes' = n
    /\ rels' = r
    /\ disk' = d
    /\ saved' = s
    /\ UNCHANGED <<arg, ret, driver, constructed, sessions, req, gone, threads,
                   closed_drivers>>

Fail(op, person, filename, files, status, error) ==
    Answer(op, person, filename, files, status, error, NoBody, nodes, rels, disk, saved)

(* the latest content a person has stored under a filename *)
Record(s, person, filename, content) ==
    [k \in DOMAIN s \cup {<<person, filename>>} |->
        IF k = <<person, filename>> THEN content ELSE s[k]]

(* @app.errorhandler(Exception): the answer to a RuntimeError of call_database *)
handle_exception == <<"Internal server error">>

PersonNotFound(person_name) == <<"Person '", person_name, "' not found">>

FileNotFound(person_name, filename) ==
    <<"File '", filename, "' not found for person '", person_name, "'">>

AlreadyExists(person_name, filename) ==
    <<"File '", filename, "' already exists for person '", person_name, "'">>

(* The response of POST /persons to the body {"name": name, "email": email} *)
AnswerPerson(name, email, status, error, body, n) ==
    /\ fs' = [NoFsRequest EXCEPT !.status = status, !.error = error,
                                 !.body = body, !.op = "create_person",
                                 !.person = name, !.email = email]
    /\ nodes' = n
    /\ UNCHANGED <<arg, ret, rels, driver, constructed, sessions, req, gone,
                   disk, saved, threads, closed_drivers>>

(* POST /persons with a JSON body; a key the body lacks is Absent *)
create_person(name, email) ==
    IF name = Absent
    THEN AnswerPerson(name, email, 400, <<"name is required">>, NoBody, nodes)
    ELSE IF LookupRaises(<<name>>)
    THEN AnswerPerson(name, email, 500, handle_exception, NoBody, nodes)
    ELSE IF get_person_by_name(nodes, name) # {}
    THEN AnswerPerson(name, email, 409,
                      <<"Person with name '", name, "' already exists">>,
                      NoBody, nodes)
    ELSE AnswerPerson(name, email, 201, NoError, [id |-> NewId(nodes)],
                      post_nodes(nodes, PersonLabel,
                                 [name |-> name,
                                  email |-> IF email = Absent THEN <<>> ELSE email,
                                  created_at |-> Now]))

(* POST /files/upload: person is the form field, files the parts named file *)
upload_file(person, files) ==
    IF files = <<>>
    THEN Fail("upload_file", person, <<>>, files, 400, <<"No file provided">>)
    ELSE IF person = Absent
    THEN Fail("upload_file", person, <<>>, files, 400, <<"person is required">>)
    ELSE LET file == files[1]
             safe_filename == file.filename
         IN  IF file_checks(file, file.filename) # NoError
             THEN Fail("upload_file", person, file.filename, files, 400,
                       file_checks(file, file.filename))
             ELSE IF LookupRaises(<<person>>)
             THEN Fail("upload_file", person, safe_filename, files, 500,
                       handle_exception)
             ELSE IF get_person_by_name(nodes, person) = {}
             THEN Fail("upload_file", person, safe_filename, files, 404,
                       PersonNotFound(person))
             ELSE IF LookupRaises(<<person, safe_filename>>)
             THEN Fail("upload_file", person, safe_filename, files, 500,
                       handle_exception)
             ELSE IF file_exists_for_person(nodes, rels, person, safe_filename)
             THEN Fail("upload_file", person, safe_filename, files, 409,
                       AlreadyExists(person, safe_filename))
             ELSE \E person_node \in get_person_by_name(nodes, person) :
                    LET d == save(disk, file_path(safe_filename), file.content)
                        n == post_nodes(nodes, FileLabel,
                                file_data(safe_filename, file,
                                          Len(d[file_path(safe_filename)])))
                        r == create_relationship(rels, person_node, NewId(nodes),
                                                 UPLOADED)
                    IN  Answer("upload_file", person, safe_filename, files, 201,
                               NoError, [file |-> NewId(nodes)], n, r, d,
                               Record(saved, person, safe_filename, file.content))

Stopped(status, error, ids, n, r, d, s) ==
    [nodes |-> n, rels |-> r, disk |-> d, saved |-> s, status |-> status,
     error |-> error, file_ids |-> ids]

(* The first loop of upload_batch from file i on: it returns at the first   *)
(* file that fails and leaves what the files before it have stored.         *)
RECURSIVE upload_batch_loop(_, _, _, _, _, _, _, _, _, _)
upload_batch_loop(person, person_node, files, i, seen_filenames, file_ids, n, r, d, s) ==
    IF i > Len(files)
    THEN Stopped(201, NoError, file_ids, n, r, d, s)
    ELSE LET file == files[i]
             safe_filename == file.filename
         IN  IF file_checks(file, file.filename) # NoError
             THEN Stopped(400, file_checks(file, file.filename), file_ids, n, r, d, s)
             ELSE IF safe_filename \in seen_filenames
             THEN Stopped(400, <<"Duplicate filename in batch: '", safe_filename, "'">>,
                          file_ids, n, r, d, s)
             ELSE IF LookupRaises(<<person, safe_filename>>)
             THEN Stopped(500, handle_exception, file_ids, n, r, d, s)
             ELSE IF file_exists_for_person(n, r, person, safe_filename)
             THEN Stopped(409, AlreadyExists(person, safe_filename),
                          file_ids, n, r, d, s)
             ELSE LET d2 == save(d, file_path(safe_filename), file.content)
                      n2 == post_nodes(n, FileLabel,
                               file_data(safe_filename, file,
                                         Len(d2[file_path(safe_filename)])))
                      r2 == create_relationship(r, person_node, NewId(n), UPLOADED)
                  IN  upload_batch_loop(person, person_node, files, i + 1,
                                        seen_filenames \cup {safe_filename},
                                        Append(file_ids, NewId(n)), n2, r2, d2,
                                        Record(s, person, safe_filename, file.content))

(* Variant: the UPLOADED_WITH relationship is stored in one direction only *)
bidirectional_one_way(r, file_id_a, file_id_b) ==
    post_relationships(r, file_id_a, file_id_b, UPLOADED_WITH)

(* the two relationships the second loop stores for a pair of files *)
bidirectional(r, file_id_a, file_id_b) ==
    post_relationships(post_relationships(r, file_id_a, file_id_b, UPLOADED_WITH),
                       file_id_b, file_id_a, UPLOADED_WITH)

(* for i, file_id_a in enumerate(file_ids): for file_id_b in file_ids[i+1:] *)
RECURSIVE uploaded_with(_, _, _, _)
uploaded_with(r, file_ids, i, j) ==
    IF i > Len(file_ids) THEN r
    ELSE IF j > Len(file_ids) THEN uploaded_with(r, file_ids, i + 1, i + 2)
    ELSE uploaded_with(bidirectional(r, file_ids[i], file_ids[j]), file_ids, i, j + 1)

(* POST /files/upload/batch *)
upload_batch(person, files) ==
    IF person = Absent
    THEN Fail("upload_batch", person, <<>>, files, 400, <<"person is required">>)
    ELSE IF files = <<>>
    THEN Fail("upload_batch", person, <<>>, files, 400, <<"No files provided">>)
    ELSE IF LookupRaises(<<person>>)
    THEN Fail("upload_batch", person, <<>>, files, 500, handle_exception)
    ELSE IF get_person_by_name(nodes, person) = {}
    THEN Fail("upload_batch", person, <<>>, files, 404, PersonNotFound(person))
    ELSE \E person_node \in get_person_by_name(nodes, person) :
           LET out == upload_batch_loop(person, person_node, files, 1, {}, <<>>,
                                        nodes, rels, disk, saved)
           IN  IF out.status # 201
               THEN Answer("upload_batch", person, <<>>, files, out.status, out.error,
                           NoBody, out.nodes, out.rels, out.disk, out.saved)
               ELSE Answer("upload_batch", person, <<>>, files, 201, NoError,
                           [count |-> Len(out.file_ids), files |-> out.file_ids],
                           out.nodes, uploaded_with(out.rels, out.file_ids, 1, 2),
                           out.disk, out.saved)

(* file_node.get("properties", {}).get("deleted", False) *)
Deleted(n, f) == "deleted" \in DOMAIN n[f].props /\ n[f].props.deleted

(* validate_person_and_file: the error it returns, NoError when both exist *)
validate_person_and_file(n, r, person_name, filename) ==
    IF LookupRaises(<<person_name>>) THEN [status |-> 500, error |-> handle_exception]
    ELSE IF get_person_by_name(n, person_name) = {}
    THEN [status |-> 404, error |-> PersonNotFound(person_name)]
    ELSE IF LookupRaises(<<person_name, filename>>)
    THEN [status |-> 500, error |-> handle_exception]
    ELSE IF ~file_exists_for_person(n, r, person_name, filename)
    THEN [status |-> 404, error |-> FileNotFound(person_name, filename)]
    ELSE [status |-> 200, error |-> NoError]

(* except Exception in download_file *)
download_error(status, error) ==
    IF status = 500 THEN <<"Internal server error during file download">> ELSE error

(* GET /files/<person_name>/<filename>/download *)
download_file(person_name, filename) ==
    LET found == validate_person_and_file(nodes, rels, person_name, filename)
    IN  IF sanitize_filename(filename).error # NoError
        THEN Fail("download_file", person_name, filename, <<>>, 400,
                  sanitize_filename(filename).error)
        ELSE IF found.error # NoError
        THEN Fail("download_file", person_name, filename, <<>>, found.status,
                  download_error(found.status, found.error))
        ELSE \E person_node \in get_person_by_name(nodes, person_name),
                file_node \in get_file_by_person_and_filename(nodes, rels, person_name,
                                                              filename) :
               IF Deleted(nodes, file_node)
               THEN Fail("download_file", person_name, filename, <<>>, 404,
                         <<"File has been deleted">>)
               ELSE IF file_path(filename) \notin DOMAIN disk
               THEN Fail("download_file", person_name, filename, <<>>, 404,
                         <<"File not found on disk">>)
               ELSE Answer("download_file", person_name, filename, <<>>, 200, NoError,
                           [sent |-> disk[file_path(filename)]],
                           nodes,
                           create_relationship(rels, person_node, file_node,
                                               DOWNLOADED),
                           disk, saved)

(* PUT /files/<person_name>/<filename> *)
edit_file(person_name, filename, files) ==
    LET found == validate_person_and_file(nodes, rels, person_name, filename)
    IN  IF files = <<>>
        THEN Fail("edit_file", person_name, filename, files, 400,
                  <<"No file provided">>)
        ELSE IF file_checks(files[1], filename) # NoError
        THEN Fail("edit_file", person_name, filename, files, 400,
                  file_checks(files[1], filename))
        ELSE IF found.error # NoError
        THEN Fail("edit_file", person_name, filename, files, found.status, found.error)
        ELSE \E person_node \in get_person_by_name(nodes, person_name),
                file_node \in get_file_by_person_and_filename(nodes, rels, person_name,
                                                              filename) :
               IF Deleted(nodes, file_node)
               THEN Fail("edit_file", person_name, filename, files, 400,
                         <<"Cannot edit deleted file">>)
               ELSE LET file == files[1]
                        d == save(disk, file_path(filename), file.content)
                        n == put_nodes(nodes, file_node,
                                [content_type |-> content_type_or_default(file),
                                 size |-> Len(d[file_path(filename)]),
                                 updated_at |-> Now])
                    IN  Answer("edit_file", person_name, filename, files, 200, NoError,
                               [file |-> file_node], n,
                               create_relationship(rels, person_node, file_node,
                                                   EDITED),
                               d, Record(saved, person_name, filename, file.content))

(* DELETE /files/<person_name>/<filename>: the file is unlinked, the node   *)
(* is kept and flagged                                                      *)
delete_file(person_name, filename) ==
    LET found == validate_person_and_file(nodes, rels, person_name, filename)
    IN  IF sanitize_filename(filename).error # NoError
        THEN Fail("delete_file", person_name, filename, <<>>, 400,
                  sanitize_filename(filename).error)
        ELSE IF found.error # NoError
        THEN Fail("delete_file", person_name, filename, <<>>, found.status,
                  found.error)
        ELSE \E file_node \in get_file_by_person_and_filename(nodes, rels, person_name,
                                                              filename) :
               IF Deleted(nodes, file_node)
               THEN Fail("delete_file", person_name, filename, <<>>, 400,
                         <<"File already deleted">>)
               ELSE Answer("delete_file", person_name, filename, <<>>, 200, NoError,
                           [file |-> file_node],
                           put_nodes(nodes, file_node,
                                     [deleted |-> TRUE, deleted_at |-> Now]),
                           rels, unlink(disk, file_path(filename)), saved)

-----------------------------------------------------------------------------
(* The requests sent to the file share service *)

MaxStored == 4
MaxLinks == 4

PersonP == <<"p">>
PersonQ == <<"q">>
Persons == {PersonP, PersonQ}

FileA == <<"a">>
FileB == <<"b">>
FileC == <<"c">>
EscapedName == <<"\\", "t">>
QuotedName == <<"'">>
HiddenName == <<".", "a">>
PathedName == <<"d", "/", "a">>

Part(filename, content_type, content) ==
    [filename |-> filename, content_type |-> content_type, content |-> content]

SingleParts ==
    {Part(FileA, "text/plain", <<1>>),
     Part(FileA, "", <<2, 2>>),
     Part(FileA, "application/x-sh", <<1>>),
     Part(EscapedName, "text/plain", <<1>>),
     Part(QuotedName, "text/plain", <<1>>),
     Part(HiddenName, "text/plain", <<1>>),
     Part(<<>>, "text/plain", <<1>>)}

EditParts ==
    {Part(FileA, "TEXT/PLAIN; charset=utf-8", <<3, 3, 3>>),
     Part(<<>>, "text/plain", <<1>>)}

BatchParts ==
    {Part(FileA, "text/plain", <<1>>),
     Part(FileB, "", <<2, 2>>),
     Part(FileA, "application/x-sh", <<1>>),
     Part(QuotedName, "text/plain", <<1>>)}

(* batches of one, two and three files *)
Batches ==
    {<<>>}
    \cup {<<f>> : f \in BatchParts}
    \cup {<<f, g>> : f \in BatchParts, g \in BatchParts}
    \cup {<<Part(FileA, "text/plain", <<1>>), Part(FileB, "", <<2, 2>>), f>> :
             f \in {Part(FileC, "image/png", <<3, 3, 3>>),
                    Part(FileA, "text/plain", <<1>>)}}

RequestedNames == {FileA, EscapedName, PathedName}

(* room left in the stored graph *)
RoomForNodes == Cardinality(DOMAIN nodes) < MaxStored

RoomForLinks == Cardinality(DOMAIN rels) < MaxLinks

CreatePerson ==
    \E name \in Persons \cup {Absent} : RoomForNodes /\ create_person(name, Absent)

UploadFile ==
    \E person \in Persons \cup {Absent}, files \in {<<>>} \cup {<<f>> : f \in SingleParts} :
       RoomForNodes /\ RoomForLinks /\ upload_file(person, files)

UploadBatch ==
    \E person \in {PersonP, Absent}, files \in Batches : upload_batch(person, files)

UploadPair ==
    \E person \in Persons :
       /\ RoomForNodes
       /\ RoomForLinks
       /\ upload_batch(person, <<Part(FileA, "text/plain", <<1>>),
                                 Part(FileA, "text/plain", <<1>>)>>)

DownloadFile ==
    \E person \in Persons, filename \in RequestedNames :
       RoomForLinks /\ download_file(person, filename)

EditFile ==
    \E person \in Persons, filename \in {FileA, HiddenName},
       files \in {<<>>} \cup {<<f>> : f \in EditParts} :
       RoomForLinks /\ edit_file(person, filename, files)

DeleteFile ==
    \E person \in Persons, filename \in {FileA, PathedName} :
       RoomForLinks /\ delete_file(person, filename)

NextShare ==
    \/ CreatePerson
    \/ UploadFile
    \/ UploadPair
    \/ DownloadFile
    \/ EditFile
    \/ DeleteFile

SpecShare == Init /\ [][NextShare]_vars

NextBatch == CreatePerson \/ UploadBatch

SpecBatch == Init /\ [][NextBatch]_vars

-----------------------------------------------------------------------------
(* Downloads *)

Downloaded == fs.op = "download_file" /\ fs.status = 200

(* C17: a successful download of filename F for person P returns exactly   *)
(* the bytes of P's most recent successful upload or edit of F, whatever   *)
(* other persons have done with the same filename.                         *)
C17_DownloadReturnsOwnBytes ==
    Downloaded => fs.body.sent = saved[<<fs.person, fs.filename>>]

(* a successful download returns the bytes stored last under the filename, *)
(* by whichever person                                                     *)
C17_DownloadReturnsLastBytes ==
    Downloaded =>
        /\ fs.body.sent = disk[file_path(fs.filename)]
        /\ \E k \in DOMAIN saved : k[2] = fs.filename /\ saved[k] = fs.body.sent

-----------------------------------------------------------------------------
(* Provenance *)

ProvenanceType ==
    [upload_file |-> UPLOADED, download_file |-> DOWNLOADED, edit_file |-> EDITED]

(* the Person nodes of a name and the File nodes a person has uploaded *)
PersonNodes(n, name) ==
    {i \in DOMAIN n : PersonLabel \in n[i].labels /\ n[i].props.name = name}

FileNodes(n, r, name, filename) ==
    {f \in DOMAIN n :
        /\ FileLabel \in n[f].labels
        /\ n[f].props.filename = filename
        /\ \E x \in DOMAIN r :
              r[x].type = UPLOADED /\ r[x].end = f /\ r[x].start \in PersonNodes(n, name)}

(* the step has added exactly one relationship, of the type of the request, *)
(* from the person to the file, with a timestamp                            *)
OneProvenanceAdded ==
    /\ \A y \in DOMAIN rels : y \in DOMAIN rels' /\ rels'[y] = rels[y]
    /\ \E x \in DOMAIN rels' \ DOMAIN rels :
          /\ DOMAIN rels' \ DOMAIN rels = {x}
          /\ rels'[x].type = ProvenanceType[fs'.op]
          /\ rels'[x].start \in PersonNodes(nodes', fs'.person)
          /\ rels'[x].end \in FileNodes(nodes', rels', fs'.person, fs'.filename)
          /\ "timestamp" \in DOMAIN rels'[x].props

Succeeded == fs'.op \in DOMAIN ProvenanceType /\ fs'.status \in {200, 201}

ClientError == fs'.status \in 400..499

(* C18: every successful upload, download or edit of file F by person P    *)
(* adds exactly one relationship from P's Person node to F's File node, of *)
(* type UPLOADED, DOWNLOADED or EDITED respectively, with a timestamp; a   *)
(* request answered with a 4xx status adds no relationship.                *)
C18_ProvenanceRecorded ==
    [][/\ Succeeded => OneProvenanceAdded
       /\ ClientError => rels' = rels]_vars

(* the same, with the 4xx part for the requests other than batch uploads *)
C18_ProvenanceRecordedSingle ==
    [][/\ Succeeded => OneProvenanceAdded
       /\ (ClientError /\ fs'.op # "upload_batch") => rels' = rels]_vars

-----------------------------------------------------------------------------
(* Single uploads *)

UploadAnswered == fs'.op = "upload_file" /\ fs'.files # <<>> /\ fs'.person # Absent

(* the step has created exactly one node, the File node of the uploaded part *)
OneFileNodeCreated ==
    /\ \A i \in DOMAIN nodes : i \in DOMAIN nodes' /\ nodes'[i] = nodes[i]
    /\ \E f \in DOMAIN nodes' \ DOMAIN nodes :
          /\ DOMAIN nodes' \ DOMAIN nodes = {f}
          /\ nodes'[f].labels = {FileLabel}
          /\ nodes'[f].props.filename = fs'.files[1].filename
          /\ nodes'[f].props.size = Len(fs'.files[1].content)
          /\ nodes'[f].props.content_type = fs'.files[1].content_type
          /\ nodes'[f].props.deleted = FALSE

(* the person has a File node of that filename before the request *)
AlreadyHas == FileNodes(nodes, rels, fs'.person, fs'.files[1].filename) # {}

(* C19: a successful single upload creates exactly one File node whose     *)
(* filename, size and content_type are those of the upload, with deleted   *)
(* false; an upload of a filename for which the same person already has a *)
(* File node is answered 409 and creates no node.                          *)
C19_UploadCreatesOneNode ==
    [][UploadAnswered =>
          /\ fs'.status = 201 => OneFileNodeCreated
          /\ AlreadyHas => fs'.status = 409 /\ nodes' = nodes]_vars

(* a backslash in the filename, a part that fails validation, a part       *)
(* without content type                                                    *)
HasEscape(filename) == \E i \in DOMAIN filename : filename[i] = "\\"

PlainUpload ==
    /\ UploadAnswered
    /\ ~HasEscape(fs'.files[1].filename)
    /\ file_checks(fs'.files[1], fs'.files[1].filename) = NoError

(* the same for filenames without backslash: the node is created as        *)
(* claimed, with application/octet-stream for a part without content type; *)
(* the repeated upload of a valid part is answered 409                     *)
C19_PlainUploadCreatesOneNode ==
    [][PlainUpload =>
          /\ (fs'.status = 201 /\ fs'.files[1].content_type # "") => OneFileNodeCreated
          /\ AlreadyHas => fs'.status = 409 /\ nodes' = nodes]_vars

(* the second half of C19 for parts that pass validation: violated by a    *)
(* filename with a backslash, which the lookup reads as an escape sequence *)
C19_RepeatedUploadRefused ==
    [][(/\ UploadAnswered
        /\ file_checks(fs'.files[1], fs'.files[1].filename) = NoError
        /\ AlreadyHas) => fs'.status = 409 /\ nodes' = nodes]_vars

-----------------------------------------------------------------------------
(* Batch uploads *)

BatchAnswered == fs'.op = "upload_batch" /\ fs'.person # Absent /\ fs'.files # <<>>

(* the filenames of the batch are distinct; one comes twice *)
Distinct(files) ==
    \A i \in DOMAIN files : \A j \in DOMAIN files :
       files[i].filename = files[j].filename => i = j

(* the relationships of a type the step has added *)
NewLinks(type) ==
    {x \in DOMAIN rels' \ DOMAIN rels : rels'[x].type = type}

(* n File nodes, one UPLOADED relationship from the person to each, and an *)
(* UPLOADED_WITH relationship each way between every two of them           *)
BatchStored ==
    LET n == Len(fs'.files)
        created == DOMAIN nodes' \ DOMAIN nodes
    IN  /\ \A i \in DOMAIN nodes : i \in DOMAIN nodes' /\ nodes'[i] = nodes[i]
        /\ \A y \in DOMAIN rels : y \in DOMAIN rels' /\ rels'[y] = rels[y]
        /\ Cardinality(created) = n
        /\ \A f \in created : nodes'[f].labels = {FileLabel}
        /\ \A k \in 1..n : \E f \in created :
              nodes'[f].props.filename = fs'.files[k].filename
        /\ Cardinality(NewLinks(UPLOADED)) = n
        /\ \A f \in created :
              Cardinality({x \in NewLinks(UPLOADED) :
                              /\ rels'[x].end = f
                              /\ rels'[x].start \in PersonNodes(nodes', fs'.person)}) = 1
        /\ Cardinality(NewLinks(UPLOADED_WITH)) = n * (n - 1)
        /\ \A f \in created : \A g \in created \ {f} :
              Cardinality({x \in NewLinks(UPLOADED_WITH) :
                              rels'[x].start = f /\ rels'[x].end = g}) = 1
        /\ DOMAIN rels' \ DOMAIN rels = NewLinks(UPLOADED) \cup NewLinks(UPLOADED_WITH)

FirstRepeat(files) ==
    CHOOSE j \in DOMAIN files :
       /\ \E i \in 1..(j - 1) : files[i].filename = files[j].filename
       /\ \A k \in 1..(j - 1) :
             \A i \in 1..(k - 1) : files[i].filename # files[k].filename

ReachesRepeat ==
    /\ PersonNodes(nodes, fs'.person) # {}
    /\ \A k \in 1..FirstRepeat(fs'.files) :
          file_checks(fs'.files[k], fs'.files[k].filename) = NoError
    /\ \A k \in 1..(FirstRepeat(fs'.files) - 1) :
          /\ ~LookupRaises(<<fs'.files[k].filename>>)
          /\ FileNodes(nodes, rels, fs'.person, fs'.files[k].filename) = {}

-----------------------------------------------------------------------------
(* Registering persons *)

Emails == {<<"e">>, <<"f">>}

PersonNames == Persons \cup {EscapedName, QuotedName}

RegisterPerson ==
    \E name \in PersonNames \cup {Absent}, email \in Emails \cup {Absent} :
        RoomForNodes /\ create_person(name, email)

SpecPersons == Init /\ [][RegisterPerson]_vars

PersonAnswered == fs'.op = "create_person" /\ fs'.person # Absent

NewNodes == DOMAIN nodes' \ DOMAIN nodes

OnePersonCreated ==
    /\ Cardinality(NewNodes) = 1
    /\ \A i \in DOMAIN nodes : nodes'[i] = nodes[i]
    /\ \A i \in NewNodes :
          /\ nodes'[i].labels = {PersonLabel}
          /\ nodes'[i].props.name = fs'.person
          /\ fs'.email # Absent => nodes'[i].props.email = fs'.email

PersonRegistered ==
    /\ fs'.status = 201 => OnePersonCreated
    /\ PersonNodes(nodes, fs'.person) # {} => fs'.status = 409 /\ nodes' = nodes

(* C21: a successful POST /persons with name N and email E creates exactly  *)
(* one Person node with name N and email E, and a POST /persons whose name  *)
(* an existing Person node has is answered 409 and creates no node          *)
C21_PersonCreatedOnce == [][PersonAnswered => PersonRegistered]_vars

(* C21 for the names without a backslash and without a quote                *)
C21_PlainPersonCreatedOnce ==
    [][PersonAnswered /\ ~HasEscape(fs'.person) /\ fs'.person # QuotedName
        => PersonRegistered]_vars

-----------------------------------------------------------------------------
(* sanitize_filename on its own, and as the upload handler uses it: every   *)
(* filename up to MaxStrLen and the two around MaxFilenameLen               *)

FilenameChars == {"a", ".", "/", " ", "\\"}

LongestName == [i \in 1..MaxFilenameLen |-> "a"]

ShortNames == SeqsUpTo(FilenameChars, MaxStrLen)

FileNames == ShortNames \cup {LongestName, Append(LongestName, "a")}

Registered ==
    post_nodes(EmptyDict, PersonLabel,
               [name |-> PersonP, email |-> <<>>, created_at |-> Now])

(* the short names meet a graph with or without the person, the long ones  *)
(* a graph without                                                          *)
InitSanitize ==
    /\ \/ arg \in FileNames /\ nodes = EmptyDict
       \/ arg \in ShortNames /\ nodes = Registered
    /\ ret = NoReturn
    /\ rels = EmptyDict
    /\ driver = 0
    /\ constructed = 0
    /\ sessions = {}
    /\ req = NoRequest
    /\ gone = {}
    /\ disk = EmptyDict
    /\ fs = NoFsRequest
    /\ saved = EmptyDict
    /\ threads = NoThreads
    /\ closed_drivers = {}

CallSanitizeFilename ==
    /\ ret.fn = "none"
    /\ ret' = [out |-> sanitize_filename(arg), fn |-> "sanitize_filename"]
    /\ UNCHANGED <<arg, nodes, rels, driver, constructed, sessions, req, gone, disk, fs,
                   saved, threads, closed_drivers>>

UploadNamed ==
    /\ fs.op = "none"
    /\ upload_file(PersonP, <<Part(arg, "text/plain", <<1>>)>>)

NextSanitize == CallSanitizeFilename \/ UploadNamed

SpecSanitize == InitSanitize /\ [][NextSanitize]_vars

(* where the components of a path start: after a slash or at the front *)
ComponentStarts(s) == {i \in DOMAIN s : s[i] # "/" /\ (i = 1 \/ s[i - 1] = "/")}

HasSeparator(s) == \E i \in DOMAIN s : s[i] = "/"

(* the path is one component that names an entry of the directory it is    *)
(* joined to                                                                *)
SingleComponent(s) ==
    /\ ~HasSeparator(s)
    /\ Cardinality(ComponentStarts(s)) = 1
    /\ s # <<".">>
    /\ s # <<".", ".">>

Acceptable(s) ==
    /\ SingleComponent(s)
    /\ s[1] # "."
    /\ ~IsBlank(s)
    /\ Len(s) <= MaxFilenameLen

SanitizeCalled == ret.fn = "sanitize_filename"

UploadNamedAnswered == fs.op = "upload_file"

(* C22: every filename sanitize_filename accepts is returned equal to its   *)
(* input and is one path component (no separator, not '.', not '..', no     *)
(* leading '.'), not blank and at most 255 characters long, so that the     *)
(* upload writes a direct child of UPLOAD_DIR; every other filename gets an *)
(* error and no name, and the upload is answered 400 and writes nothing     *)
C22_SanitizeFilename ==
    /\ SanitizeCalled =>
          IF Acceptable(arg)
          THEN ret.out.name = arg /\ ret.out.error = NoError
          ELSE ret.out.name = None /\ ret.out.error # NoError
    /\ UploadNamedAnswered =>
          IF Acceptable(arg)
          THEN /\ fs.status # 400
               /\ DOMAIN disk \subseteq {arg}
               /\ fs.status = 201 => DOMAIN disk = {arg}
          ELSE fs.status = 400 /\ disk = EmptyDict /\ DOMAIN nodes \subseteq {1}

(* a name with a dot inside is accepted and stored under itself *)
C22_DottedNameStored ==
    /\ SanitizeCalled
    /\ UploadNamedAnswered
    /\ arg = <<"a", ".", "a">>
    /\ fs.status = 201
    /\ DOMAIN disk = {arg}

-----------------------------------------------------------------------------
(* Referential integrity of the stored graph: nodes and relationships are  *)
(* created, updated and deleted                                            *)

UpdatePlainRelationship ==
    \E x \in QueryRelIds :
        Handle("update_relationship", Input(x, PlainUpdateBody, EmptyDict), TRUE)

NextIntegrity ==
    \/ CreatePlainNode
    \/ UpdatePlainNode
    \/ DeletePlainNode
    \/ CreatePlainRelationship
    \/ UpdatePlainRelationship
    \/ DeletePlainRelationship

SpecIntegrity == Init /\ [][NextIntegrity]_vars

Endpoints(r) == {r.start, r.end}

NoDangling == \A x \in DOMAIN rels : Endpoints(rels[x]) \subseteq DOMAIN nodes

NodeDeleted == req'.op = "delete_node" /\ req'.status = 200

NothingAttached ==
    /\ req'.in.path \notin DOMAIN nodes'
    /\ \A x \in DOMAIN rels' : ~Incident(rels'[x], req'.in.path)

(* C23: after any sequence of createNode, createRelationship, updateNode,  *)
(* updateRelationship, deleteNode and deleteRelationship every stored      *)
(* relationship starts and ends at nodes that exist, and a deleteNode      *)
(* leaves no relationship attached to the node it deleted                  *)
C23_ReferentialIntegrity == []NoDangling /\ [][NodeDeleted => NothingAttached]_vars

(* a node is deleted while the other node keeps its relationship *)
C23_DeletedBesideRelationship ==
    /\ req.op = "delete_node"
    /\ req.status = 200
    /\ req.in.path \in gone
    /\ DOMAIN rels # {}

-----------------------------------------------------------------------------
(* The frame of the updates: a stored graph of MaxNodes nodes and MaxRels  *)
(* relationships, whose properties the clients set and unset               *)

FrameBodies ==
    {JNull, Body([properties |-> [age |-> "31"]]), Body([properties |-> [age |-> Null]])}

InitFrame ==
    /\ arg = <<>>
    /\ ret = NoReturn
    /\ nodes = [i \in NodeIds |->
                  IF i = 1 THEN [labels |-> {LabelA}, props |-> [name |-> "30"]]
                  ELSE [labels |-> {LabelB}, props |-> EmptyDict]]
    /\ rels = [x \in RelIds |->
                  [start |-> 1, end |-> MaxNodes, type |-> TypeK,
                   props |-> [name |-> "30"]]]
    /\ driver = 0
    /\ constructed = 0
    /\ sessions = {}
    /\ req = NoRequest
    /\ gone = {}
    /\ disk = EmptyDict
    /\ fs = NoFsRequest
    /\ saved = EmptyDict
    /\ threads = NoThreads
    /\ closed_drivers = {}

SetNodeProperties ==
    \E i \in QueryNodeIds, data \in FrameBodies :
        Handle("update_node", Input(i, data, EmptyDict), FALSE)

SetRelationshipProperties ==
    \E x \in QueryRelIds, data \in FrameBodies :
        Handle("update_relationship", Input(x, data, EmptyDict), FALSE)

NextFrame == SetNodeProperties \/ SetRelationshipProperties

SpecFrame == InitFrame /\ [][NextFrame]_vars

(* every entry but the properties of entry id is as before *)
OnlyPropsOf(before, after, id) ==
    /\ DOMAIN after = DOMAIN before
    /\ \A j \in DOMAIN before :
          IF j = id
          THEN [after[j] EXCEPT !.props = before[j].props] = before[j]
          ELSE after[j] = before[j]

NodeFrame ==
    /\ rels' = rels
    /\ IF req'.status = 200
       THEN /\ OnlyPropsOf(nodes, nodes', req'.in.path)
            /\ req'.body.id = req'.in.path
            /\ req'.body.labels = nodes[req'.in.path].labels
       ELSE nodes' = nodes

RelationshipFrame ==
    /\ nodes' = nodes
    /\ IF req'.status = 200
       THEN /\ OnlyPropsOf(rels, rels', req'.in.path)
            /\ req'.body.id = req'.in.path
            /\ req'.body.type = rels[req'.in.path].type
            /\ req'.body.start_node_id = rels[req'.in.path].start
            /\ req'.body.end_node_id = rels[req'.in.path].end
       ELSE rels' = rels

(* C24: updateNode changes only the properties of the node it matched: its *)
(* id and labels, every other node and every relationship stay as they     *)
(* were; updateRelationship changes only the properties of the             *)
(* relationship it matched: its id, type, start and end, every other       *)
(* relationship and every node stay as they were; an update that is not    *)
(* answered 200, the 404 included, changes nothing                         *)
C24_UpdateFrame ==
    [][/\ req'.op = "update_node" => NodeFrame
       /\ req'.op = "update_relationship" => RelationshipFrame]_vars

(* the first node got a property, the others have none *)
C24_OneNodeUpdated ==
    /\ req.op = "update_node"
    /\ req.status = 200
    /\ req.in.path = 1
    /\ nodes[1].props = [name |-> "30", age |-> "31"]
    /\ \A i \in DOMAIN nodes \ {1} : nodes[i].props = EmptyDict

-----------------------------------------------------------------------------
(* Requests served in parallel by the threads of the database service: the *)
(* steps of get_db, of the session block and of the teardown interleave    *)

MaxThreads == 2

Threads == 1..MaxThreads

Idle == [conn |-> 0, pc |-> "idle", session |-> 0]

InitDriver ==
    /\ arg = <<>>
    /\ ret = NoReturn
    /\ nodes = EmptyDict
    /\ rels = EmptyDict
    /\ driver = 0
    /\ constructed = 0
    /\ sessions = {}
    /\ req = NoRequest
    /\ gone = {}
    /\ disk = EmptyDict
    /\ fs = NoFsRequest
    /\ saved = EmptyDict
    /\ threads = [t \in Threads |-> Idle]
    /\ closed_drivers = {}

At(t, pc) == threads[t].pc = pc

Goto(t, pc) == threads' = [threads EXCEPT ![t].pc = pc]

Backend == <<arg, ret, nodes, rels, req, gone, disk, fs, saved>>

(* a request arrives and its handler calls get_db() *)
Arrive(t) ==
    /\ At(t, "idle")
    /\ Goto(t, "get_driver")
    /\ UNCHANGED <<Backend, driver, constructed, sessions, closed_drivers>>

(* get_driver: if self._driver is None *)
CheckDriver(t) ==
    /\ At(t, "get_driver")
    /\ Goto(t, IF driver = 0 THEN "construct" ELSE "return")
    /\ UNCHANGED <<Backend, driver, constructed, sessions, closed_drivers>>

(* get_driver: self._driver = GraphDatabase.driver(...) *)
ConstructDriver(t) ==
    /\ At(t, "construct")
    /\ constructed < MaxDrivers
    /\ constructed' = constructed + 1
    /\ driver' = constructed + 1
    /\ Goto(t, "return")
    /\ UNCHANGED <<Backend, sessions, closed_drivers>>

(* get_driver: return self._driver, None when a teardown came between;     *)
(* None has no session(), the handler answers 500                          *)
ReturnDriver(t) ==
    /\ At(t, "return")
    /\ threads' = [threads EXCEPT ![t].conn = driver,
                                  ![t].pc = IF driver = 0 THEN "teardown" ELSE "session"]
    /\ UNCHANGED <<Backend, driver, constructed, sessions, closed_drivers>>

(* with driver.session() as session: a driver that is closed raises or, in *)
(* the driver versions that only warn, still gives a session               *)
EnterSession(t) ==
    /\ At(t, "session")
    /\ \/ /\ threads[t].conn \in closed_drivers
          /\ Goto(t, "teardown")
          /\ UNCHANGED sessions
       \/ /\ sessions' = session_enter(sessions)
          /\ threads' = [threads EXCEPT ![t].session = NewSession(sessions),
                                        ![t].pc = "run"]
    /\ UNCHANGED <<Backend, driver, constructed, closed_drivers>>

(* session.run(...) and the reading of the result *)
RunInSession(t) ==
    /\ At(t, "run")
    /\ Goto(t, "exit")
    /\ UNCHANGED <<Backend, driver, constructed, sessions, closed_drivers>>

(* the with block is left *)
ExitSession(t) ==
    /\ At(t, "exit")
    /\ sessions' = session_exit(sessions, threads[t].session, "none")
    /\ Goto(t, "teardown")
    /\ UNCHANGED <<Backend, driver, constructed, closed_drivers>>

(* teardown_db: close_db() closes the driver the holder has and forgets it *)
Teardown(t) ==
    /\ At(t, "teardown")
    /\ closed_drivers' =
          IF driver = 0 THEN closed_drivers ELSE closed_drivers \cup {driver}
    /\ driver' = teardown_db(driver)
    /\ threads' = [threads EXCEPT ![t] = Idle]
    /\ UNCHANGED <<Backend, constructed, sessions>>

NextDriver ==
    \E t \in Threads :
        \/ Arrive(t)
        \/ CheckDriver(t)
        \/ ConstructDriver(t)
        \/ ReturnDriver(t)
        \/ EnterSession(t)
        \/ RunInSession(t)
        \/ ExitSession(t)
        \/ Teardown(t)

SpecDriver == InitDriver /\ [][NextDriver]_vars

(* the request of thread t is between its get_db() and the end of its      *)
(* session block                                                           *)
InFlight(t) == threads[t].pc \in {"get_driver", "construct", "return", "session", "run", "exit"}

InSessionBlock(t) == threads[t].pc \in {"run", "exit"}

(* C25: the driver a request got from get_db is never closed by the        *)
(* teardown of another request while the session block of the first is     *)
(* executing; a close takes effect only when no request is in flight       *)
C25_NoCloseInFlight ==
    [][closed_drivers' # closed_drivers => \A t \in Threads : ~InFlight(t)]_vars

(* C25, its first half: no driver is closed under a running session block  *)
C25_NoCloseUnderSession ==
    [][\A t \in Threads :
          InSessionBlock(t) /\ threads[t].conn \notin closed_drivers
              => threads[t].conn \notin closed_drivers']_vars

Live == (1..constructed) \ closed_drivers

(* C26: threads that call get_db while there is no driver construct one    *)
(* driver between them and all get that one: two drivers are never open at *)
(* once, and every driver that was constructed and is not closed is the    *)
(* one the holder refers to                                                *)
C26_SingleFlight == Live \subseteq {driver}

(* C26, its first half: at most one driver is open at a time *)
C26_OneDriverOpen == Cardinality(Live) <= 1

-----------------------------------------------------------------------------
(* POST /persons served in parallel by the threads of the file share: the   *)
(* lookup and the creation are two calls to the database service, and the   *)
(* calls of different requests interleave                                   *)

Waiting == [name |-> Absent, status |-> 0, found |-> FALSE, pc |-> "idle"]

InitRace ==
    /\ arg = <<>>
    /\ ret = NoReturn
    /\ nodes = EmptyDict
    /\ rels = EmptyDict
    /\ driver = 0
    /\ constructed = 0
    /\ sessions = {}
    /\ req = NoRequest
    /\ gone = {}
    /\ disk = EmptyDict
    /\ fs = NoFsRequest
    /\ saved = EmptyDict
    /\ threads = [t \in Threads |-> Waiting]
    /\ closed_drivers = {}

Untouched == <<arg, ret, rels, driver, constructed, sessions, req, gone, disk, fs, saved,
               closed_drivers>>

(* create_person is entered with a body that has a name *)
PostPerson(t) ==
    \E name \in Persons :
        /\ threads[t].pc \in {"idle", "answered"}
        /\ RoomForNodes
        /\ threads' = [threads EXCEPT ![t] = [Waiting EXCEPT !.pc = "person_exists",
                                                             !.name = name]]
        /\ UNCHANGED <<nodes, Untouched>>

(* if person_exists(name): the GET of get_person_by_name *)
person_exists(t) ==
    /\ At(t, "person_exists")
    /\ threads' = [threads EXCEPT
                     ![t].found = get_person_by_name(nodes, threads[t].name) # {},
                     ![t].pc = "post_nodes"]
    /\ UNCHANGED <<nodes, Untouched>>

(* 409, or call_database("POST", "nodes", ...) and 201 *)
PersonAnswer(t) ==
    /\ At(t, "post_nodes")
    /\ IF threads[t].found
       THEN /\ threads' = [threads EXCEPT ![t].status = 409, ![t].pc = "answered"]
            /\ UNCHANGED nodes
       ELSE /\ nodes' = post_nodes(nodes, PersonLabel,
                                   [name |-> threads[t].name, email |-> <<>>,
                                    created_at |-> Now])
            /\ threads' = [threads EXCEPT ![t].status = 201, ![t].pc = "answered"]
    /\ UNCHANGED Untouched

NextRace ==
    \E t \in Threads :
        \/ PostPerson(t)
        \/ person_exists(t)
        \/ PersonAnswer(t)

SpecRace == InitRace /\ [][NextRace]_vars

(* C27: under every interleaving of concurrent POST /persons the graph has  *)
(* at most one Person node of a name                                        *)
C27_NamesUnique ==
    \A name \in Persons : Cardinality(PersonNodes(nodes, name)) <= 1

(* C27, its second half: of the requests with one name that are answered    *)
(* together at most one is answered 201                                     *)
C27_OneCreated ==
    \A t, u \in Threads :
        (t # u /\ threads[t].name = threads[u].name /\ threads[t].status = 201)
            => threads[u].status # 201

-----------------------------------------------------------------------------
(* Uploads during which a call to the database service fails *)

(* every check of upload_file passes: the handler goes on to store the file *)
Storing(person, files) ==
    /\ files # <<>>
    /\ person # Absent
    /\ file_checks(files[1], files[1].filename) = NoError
    /\ ~LookupRaises(<<person, files[1].filename>>)
    /\ get_person_by_name(nodes, person) # {}
    /\ ~file_exists_for_person(nodes, rels, person, files[1].filename)

UploadFaults == {"post_nodes", "post_relationships"}

(* upload_file when call_database raises RuntimeError in the call named by  *)
(* fault: the exception leaves the handler, what was stored before stays    *)
upload_file_failing(person, files, fault) ==
    /\ Storing(person, files)
    /\ LET file == files[1]
           safe_filename == file.filename
           d == save(disk, file_path(safe_filename), file.content)
           n == post_nodes(nodes, FileLabel,
                           file_data(safe_filename, file,
                                     Len(d[file_path(safe_filename)])))
       IN  Answer("upload_file", person, safe_filename, files, 500,
                  handle_exception, NoBody,
                  IF fault = "post_nodes" THEN nodes ELSE n, rels, d, saved)

UploadFileFailing ==
    \E person \in Persons, f \in SingleParts, fault \in UploadFaults :
        RoomForNodes /\ RoomForLinks /\ upload_file_failing(person, <<f>>, fault)

NextFaults ==
    \/ CreatePerson
    \/ UploadFile
    \/ UploadFileFailing

SpecFaults == Init /\ [][NextFaults]_vars

Uploaders(n, r, f) ==
    {x \in DOMAIN r :
        /\ r[x].type = UPLOADED
        /\ r[x].end = f
        /\ r[x].start \in DOMAIN n
        /\ PersonLabel \in n[r[x].start].labels}

AllFileNodes(n) == {f \in DOMAIN n : FileLabel \in n[f].labels}

(* C28: after an upload has completed, successfully or not, every File     *)
(* node has an UPLOADED relationship from a Person node and every file     *)
(* under UPLOAD_DIR has a File node                                        *)
C28_NoPartialUpload ==
    /\ \A f \in AllFileNodes(nodes) : Uploaders(nodes, rels, f) # {}
    /\ \A path \in DOMAIN disk :
          \E f \in AllFileNodes(nodes) : nodes[f].props.filename = path

-----------------------------------------------------------------------------
(* Soft delete: files uploaded, fetched, edited and deleted by two persons, *)
(* under a plain name and under names with a backslash                      *)

TextPart == Part(FileA, "text/plain", <<1>>)

ScriptPart == Part(FileA, "application/x-sh", <<1>>)

EscapedPart == Part(EscapedName, "text/plain", <<1>>)

(* the name whose literal the database reads as EscapedName *)
DoubleEscapedName == <<"\\", "\\", "t">>

DeleteNames == {FileA, DoubleEscapedName}

AddPerson == \E name \in Persons : RoomForNodes /\ create_person(name, Absent)

UploadA ==
    \E person \in Persons, files \in {<<>>, <<TextPart>>, <<ScriptPart>>, <<EscapedPart>>} :
        RoomForNodes /\ RoomForLinks /\ upload_file(person, files)

DownloadA ==
    \E person \in Persons, filename \in DeleteNames :
        RoomForLinks /\ download_file(person, filename)

EditA ==
    \E person \in Persons, filename \in DeleteNames,
       files \in {<<>>, <<Part(FileA, "text/plain", <<3, 3, 3>>)>>} :
        RoomForLinks /\ edit_file(person, filename, files)

DeleteA == \E person \in Persons, filename \in DeleteNames : delete_file(person, filename)

NextDelete ==
    \/ AddPerson
    \/ UploadA
    \/ DownloadA
    \/ EditA
    \/ DeleteA

SpecDelete == Init /\ [][NextDelete]_vars

(* the File nodes the service finds for the person and the filename that    *)
(* are soft-deleted                                                         *)
SoftDeleted(n, r, person, filename) ==
    IF LookupRaises(<<person, filename>>) THEN {}
    ELSE {f \in get_file_by_person_and_filename(n, r, person, filename) : Deleted(n, f)}

Stored == <<nodes, rels, disk>>

(* the request is about a file its person has soft-deleted *)
OnDeleted(op) ==
    /\ fs'.op = op
    /\ fs'.person \in Persons
    /\ SoftDeleted(nodes, rels, fs'.person, fs'.filename) # {}

StaysDeleted ==
    \A f \in AllFileNodes(nodes) :
        Deleted(nodes, f) => f \in DOMAIN nodes' /\ Deleted(nodes', f)

Terminal ==
    /\ StaysDeleted
    /\ OnDeleted("download_file") => fs'.status = 404 /\ Stored' = Stored
    /\ OnDeleted("edit_file") => fs'.status = 400 /\ Stored' = Stored
    /\ OnDeleted("delete_file") => fs'.status = 400 /\ Stored' = Stored

(* C29: once delete_file has succeeded for a person and a filename the     *)
(* File node stays with deleted true, every download is answered 404 and   *)
(* leaves no DOWNLOADED relationship, every edit is answered 400 and       *)
(* writes nothing, every further delete is answered 400, and every upload  *)
(* of the filename by the person is answered 409                           *)
C29_Terminal ==
    [][/\ Terminal
       /\ OnDeleted("upload_file") => fs'.status = 409 /\ Stored' = Stored]_vars

(* C29 with the uploads left aside *)
C29_TerminalButUploads == [][Terminal]_vars

(* C29 for the filenames without a backslash, an upload whose part fails   *)
(* validation answered 400                                                 *)
C29_PlainTerminal ==
    [][~HasEscape(fs'.filename) =>
          /\ Terminal
          /\ OnDeleted("upload_file") =>
                /\ Stored' = Stored
                /\ fs'.status =
                     IF file_checks(fs'.files[1], fs'.filename) = NoError
                     THEN 409 ELSE 400]_vars

-----------------------------------------------------------------------------
(* The statements of the lookups (person_utils.py): the text the f-strings  *)
(* build, and what the database reads in it                                 *)

(* the text of get_person_by_name's query: the pieces of the f-string and   *)
(* the characters of the name between them                                  *)
person_statement(name) ==
    <<"MATCH (p:Person {name: ", "'">> \o name \o <<"'", "}) RETURN p LIMIT 1">>

(* the text of get_file_by_person_and_filename's query *)
file_statement(person_name, filename) ==
    <<"MATCH (p:Person {name: ", "'">> \o person_name
        \o <<"'", "})-[:UPLOADED]->(f:File {filename: ", "'">> \o filename
        \o <<"'", "}) RETURN f LIMIT 1">>

Read(skeleton, literals) == [skeleton |-> skeleton, literals |-> literals]

(* How the database reads a statement from position i on: the text outside  *)
(* the string literals with a $ for every literal, and the strings the      *)
(* literals denote.  A literal runs from a quote to the next quote that no  *)
(* backslash escapes.                                                       *)
RECURSIVE Parse(_, _, _, _, _)
Parse(stmt, i, inside, value, out) ==
    IF i > Len(stmt)
    THEN IF inside THEN Read(Append(out.skeleton, "unterminated"), out.literals) ELSE out
    ELSE IF ~inside
    THEN IF stmt[i] = "'" THEN Parse(stmt, i + 1, TRUE, <<>>, out)
         ELSE Parse(stmt, i + 1, FALSE, <<>>,
                    Read(Append(out.skeleton, stmt[i]), out.literals))
    ELSE IF stmt[i] = "'"
    THEN Parse(stmt, i + 1, FALSE, <<>>,
               Read(Append(out.skeleton, "$"), Append(out.literals, value)))
    ELSE IF stmt[i] = "\\"
    THEN IF i = Len(stmt) \/ stmt[i + 1] \notin DOMAIN Escapes
         THEN Read(Append(out.skeleton, "invalid escape"), out.literals)
         ELSE Parse(stmt, i + 2, TRUE, Append(value, Escapes[stmt[i + 1]]), out)
    ELSE Parse(stmt, i + 1, TRUE, Append(value, stmt[i]), out)

Sent(stmt) == Parse(stmt, 1, FALSE, <<>>, Read(<<>>, <<>>))

NameChars == {"t", "'", "\\"}

LookupNames == SeqsUpTo(NameChars, MaxStrLen)

InitLookup ==
    /\ arg \in LookupNames \X LookupNames
    /\ ret = NoReturn
    /\ nodes = EmptyDict
    /\ rels = EmptyDict
    /\ driver = 0
    /\ constructed = 0
    /\ sessions = {}
    /\ req = NoRequest
    /\ gone = {}
    /\ disk = EmptyDict
    /\ fs = NoFsRequest
    /\ saved = EmptyDict
    /\ threads = NoThreads
    /\ closed_drivers = {}

Unread == <<arg, nodes, rels, driver, constructed, sessions, req, gone, disk, fs, saved,
            threads, closed_drivers>>

CallGetPersonByName ==
    /\ ret.fn # "get_person_by_name"
    /\ ret' = [out |-> Sent(person_statement(arg[1])), fn |-> "get_person_by_name"]
    /\ UNCHANGED Unread

CallGetFileByPersonAndFilename ==
    /\ ret.fn # "get_file_by_person_and_filename"
    /\ ret' = [out |-> Sent(file_statement(arg[1], arg[2])),
               fn |-> "get_file_by_person_and_filename"]
    /\ UNCHANGED Unread

NextLookup == CallGetPersonByName \/ CallGetFileByPersonAndFilename

SpecLookup == InitLookup /\ [][NextLookup]_vars

PersonSkeleton == <<"MATCH (p:Person {name: ", "$", "}) RETURN p LIMIT 1">>

FileSkeleton ==
    <<"MATCH (p:Person {name: ", "$", "})-[:UPLOADED]->(f:File {filename: ", "$",
      "}) RETURN f LIMIT 1">>

SameStatement ==
    /\ ret.fn = "get_person_by_name" => ret.out = Read(PersonSkeleton, <<arg[1]>>)
    /\ ret.fn = "get_file_by_person_and_filename" =>
          ret.out = Read(FileSkeleton, <<arg[1], arg[2]>>)

(* C30: the statement get_person_by_name and                                *)
(* get_file_by_person_and_filename send has the same structure for every    *)
(* name and filename, and the names are in it only as the strings the       *)
(* properties are compared with                                             *)
C30_SameStatement == SameStatement

IsPlain(s) == \A i \in DOMAIN s : s[i] \notin {"'", "\\"}

(* C30 for the names and filenames without a quote and without a backslash *)
C30_SameStatementPlain ==
    (IsPlain(arg[1]) /\ (ret.fn = "get_person_by_name" \/ IsPlain(arg[2])))
        => SameStatement

====
